---------------------------- MODULE Spec2Model ----------------------------
(***************************************************************************)
(* Model of the diff renderer of UnusedCategories (src/utils/diff.py):     *)
(* PatchManager, Hunk, _Superhunk and the colour markup renderer make_str. *)
(*                                                                         *)
(* Conventions.                                                            *)
(*  - A text is the sequence of its lines (str.splitlines(True)); a line   *)
(*    is a sequence of one-character strings, so that the character walks  *)
(*    of the source (startswith, strip, zip_longest) are computed.         *)
(*  - Python indices are kept: ranges (i1, i2) are 0-based and exclusive.  *)
(*    Slice(s, i1, i2) is s[i1:i2].                                        *)
(*  - A markup string is a sequence of items; an item is a piece of text   *)
(*    or one colour tag "<<body>>" (what colorTagR matches).               *)
(***************************************************************************)
EXTENDS Integers, Sequences, FiniteSets, TLC

(***************************************************************************)
(* Bounds of the model.                                                    *)
(***************************************************************************)
\* longest text (in lines) of the exhaustive family of text pairs
MaxLen == 3
\* number of lines of the text of distinct lines that lines are deleted from
MaxUnique == 11
\* at most this many lines are deleted from the text of distinct lines
MaxDeleted == 3
\* largest context a PatchManager is built with
MaxContext == 3
\* longest markup string (in items) given to make_str
MaxItems == 5
\* most pieces a page text is made of
MaxPieces == 2
\* the most lines of a text made of lines that resemble one another
MaxSimilar == 2
\* the most members of an English category
MaxMembers == 2

(***************************************************************************)
(* Python helpers.                                                         *)
(***************************************************************************)
Min(x, y) == IF x <= y THEN x ELSE y

Max(x, y) == IF x >= y THEN x ELSE y

\* s[i1:i2] for 0 <= i1, with Python's clamping of i2 to len(s)
Slice(s, i1, i2) ==
    LET hi == Min(i2, Len(s))
    IN  IF i1 >= hi THEN <<>> ELSE [k \in 1..(hi - i1) |-> s[i1 + k]]

RECURSIVE Flatten(_)
\* "".join(parts) for a sequence of sequences
Flatten(parts) ==
    IF parts = <<>> THEN <<>> ELSE Head(parts) \o Flatten(Tail(parts))

\* the characters str.strip() and str.rstrip() remove
Whitespace == {" ", "\n", "\t", "\r", "\f"}

RECURSIVE RStrip(_)
RStrip(s) ==
    IF s # <<>> /\ s[Len(s)] \in Whitespace
    THEN RStrip(SubSeq(s, 1, Len(s) - 1))
    ELSE s

RECURSIVE LStrip(_)
LStrip(s) ==
    IF s # <<>> /\ s[1] \in Whitespace THEN LStrip(Tail(s)) ELSE s

Strip(s) == LStrip(RStrip(s))

\* line.startswith(c) for a one-character c
StartsWith(line, c) == line # <<>> /\ line[1] = c

(***************************************************************************)
(* difflib.SequenceMatcher(None, a, b), as PatchManager.__init__ uses it   *)
(* (no junk; texts shorter than 200 lines, so no autojunk).                *)
(***************************************************************************)
RECURSIVE CommonLen(_, _, _, _, _, _)
\* the length of the longest common run of a[i:ahi] and b[j:bhi] from i, j
CommonLen(a, b, i, ahi, j, bhi) ==
    IF i < ahi /\ j < bhi /\ a[i + 1] = b[j + 1]
    THEN 1 + CommonLen(a, b, i + 1, ahi, j + 1, bhi)
    ELSE 0

\* the longest matching block in a[alo:ahi], b[blo:bhi]; of the longest, the
\* one starting earliest in a, and of those the one starting earliest in b
find_longest_match(a, b, alo, ahi, blo, bhi) ==
    LET len == [p \in (alo..(ahi - 1)) \X (blo..(bhi - 1)) |->
                   CommonLen(a, b, p[1], ahi, p[2], bhi)]
        Better(p, q) ==
            \/ len[p] > len[q]
            \/ len[p] = len[q] /\ p[1] < q[1]
            \/ len[p] = len[q] /\ p[1] = q[1] /\ p[2] < q[2]
        cands == {p \in DOMAIN len : len[p] > 0}
    IN  IF cands = {}
        THEN <<alo, blo, 0>>
        ELSE LET best == CHOOSE p \in cands :
                             \A q \in cands \ {p} : Better(p, q)
             IN  <<best[1], best[2], len[best]>>

RECURSIVE MatchingBlocksIn(_, _, _, _, _, _)
RECURSIVE AroundMatch(_, _, _, _, _, _, _)
\* the blocks the queue of get_matching_blocks collects, sorted
MatchingBlocksIn(a, b, alo, ahi, blo, bhi) ==
    AroundMatch(a, b, alo, ahi, blo, bhi,
                find_longest_match(a, b, alo, ahi, blo, bhi))

\* the longest match x = (i, j, k) of a[alo:ahi], b[blo:bhi] with the blocks
\* of the two regions it leaves
AroundMatch(a, b, alo, ahi, blo, bhi, x) ==
    IF x[3] = 0
    THEN <<>>
    ELSE (IF alo < x[1] /\ blo < x[2]
          THEN MatchingBlocksIn(a, b, alo, x[1], blo, x[2]) ELSE <<>>)
         \o <<x>>
         \o (IF x[1] + x[3] < ahi /\ x[2] + x[3] < bhi
             THEN MatchingBlocksIn(a, b, x[1] + x[3], ahi, x[2] + x[3], bhi)
             ELSE <<>>)

RECURSIVE CollapseAdjacent(_, _, _)
\* the loop of get_matching_blocks that merges adjacent blocks
CollapseAdjacent(blocks, cur, acc) ==
    IF blocks = <<>>
    THEN IF cur[3] # 0 THEN Append(acc, cur) ELSE acc
    ELSE LET nb == Head(blocks)
         IN  IF cur[1] + cur[3] = nb[1] /\ cur[2] + cur[3] = nb[2]
             THEN CollapseAdjacent(Tail(blocks),
                                   <<cur[1], cur[2], cur[3] + nb[3]>>, acc)
             ELSE CollapseAdjacent(Tail(blocks), nb,
                                   IF cur[3] # 0 THEN Append(acc, cur) ELSE acc)

get_matching_blocks(a, b) ==
    Append(CollapseAdjacent(MatchingBlocksIn(a, b, 0, Len(a), 0, Len(b)),
                            <<0, 0, 0>>, <<>>),
           <<Len(a), Len(b), 0>>)

Opcode(tag, i1, i2, j1, j2) ==
    [tag |-> tag, i1 |-> i1, i2 |-> i2, j1 |-> j1, j2 |-> j2]

RECURSIVE OpcodesFrom(_, _, _, _)
OpcodesFrom(blocks, i, j, answer) ==
    IF blocks = <<>>
    THEN answer
    ELSE LET ai == Head(blocks)[1]
             bj == Head(blocks)[2]
             size == Head(blocks)[3]
             tag == IF i < ai /\ j < bj THEN "replace"
                    ELSE IF i < ai THEN "delete"
                    ELSE IF j < bj THEN "insert"
                    ELSE ""
             ans1 == IF tag # "" THEN Append(answer, Opcode(tag, i, ai, j, bj))
                     ELSE answer
             ans2 == IF size # 0
                     THEN Append(ans1, Opcode("equal", ai, ai + size, bj, bj + size))
                     ELSE ans1
         IN  OpcodesFrom(Tail(blocks), ai + size, bj + size, ans2)

get_opcodes(a, b) == OpcodesFrom(get_matching_blocks(a, b), 0, 0, <<>>)

RECURSIVE GroupLoop(_, _, _, _)
\* the loop of get_grouped_opcodes(n): codes left, the open group, the groups
GroupLoop(codes, n, group, groups) ==
    IF codes = <<>>
    THEN IF group # <<>> /\ ~(Len(group) = 1 /\ group[1].tag = "equal")
         THEN Append(groups, group)
         ELSE groups
    ELSE LET c == Head(codes)
         IN  IF c.tag = "equal" /\ c.i2 - c.i1 > n + n
             THEN GroupLoop(Tail(codes), n,
                    <<Opcode(c.tag, Max(c.i1, c.i2 - n), c.i2,
                             Max(c.j1, c.j2 - n), c.j2)>>,
                    Append(groups,
                           Append(group,
                                  Opcode(c.tag, c.i1, Min(c.i2, c.i1 + n),
                                         c.j1, Min(c.j2, c.j1 + n)))))
             ELSE GroupLoop(Tail(codes), n, Append(group, c), groups)

\* codes[0] of get_grouped_opcodes trimmed to n lines, if it is an equal
FixupLeading(codes, n) ==
    IF codes[1].tag = "equal"
    THEN [codes EXCEPT ![1] =
            Opcode(@.tag, Max(@.i1, @.i2 - n), @.i2, Max(@.j1, @.j2 - n), @.j2)]
    ELSE codes

\* codes[-1] of get_grouped_opcodes trimmed to n lines, if it is an equal
FixupTrailing(codes, n) ==
    IF codes[Len(codes)].tag = "equal"
    THEN [codes EXCEPT ![Len(codes)] =
            Opcode(@.tag, @.i1, Min(@.i2, @.i1 + n), @.j1, Min(@.j2, @.j1 + n))]
    ELSE codes

\* codes of get_grouped_opcodes when get_opcodes() is empty
OrOneEqual(codes) ==
    IF codes = <<>> THEN <<Opcode("equal", 0, 1, 0, 1)>> ELSE codes

get_grouped_opcodes(a, b, n) ==
    GroupLoop(FixupTrailing(FixupLeading(OrOneEqual(get_opcodes(a, b)), n), n),
              n, <<>>, <<>>)

(***************************************************************************)
(* difflib.ndiff(a, b): Differ(None, IS_CHARACTER_JUNK).compare(a, b), for *)
(* lines that hold no space and no tab (the characters IS_CHARACTER_JUNK   *)
(* names), so that the character matcher has no junk either.               *)
(***************************************************************************)
RECURSIVE SumSizes(_)
SumSizes(blocks) ==
    IF blocks = <<>> THEN 0 ELSE Head(blocks)[3] + SumSizes(Tail(blocks))

\* SequenceMatcher.ratio() of two lines as the fraction <<2 * matches, length>>
ratio(x, y) == <<2 * SumSizes(get_matching_blocks(x, y)), Len(x) + Len(y)>>

\* r > s for fractions with positive denominators
RatioGt(r, s) == r[1] * s[2] > s[1] * r[2]

\* Differ._dump(tag, x, lo, hi)
_dump(tag, x, lo, hi) ==
    [k \in 1..(hi - lo) |-> <<tag, " ">> \o x[lo + k]]

_plain_replace(a, alo, ahi, b, blo, bhi) ==
    IF bhi - blo < ahi - alo
    THEN _dump("+", b, blo, bhi) \o _dump("-", a, alo, ahi)
    ELSE _dump("-", a, alo, ahi) \o _dump("+", b, blo, bhi)

\* best_ratio, best_i, best_j after the pair (i, j) of ratio r
BetterPair(best, differ, r, i, j) ==
    IF differ /\ RatioGt(r, best[1]) THEN <<r, i, j>> ELSE best

RECURSIVE BestPair(_, _, _, _, _, _, _, _)
\* the search loop of _fancy_replace: pairs are visited with j outermost;
\* best is <<ratio, i, j>>, with i = -1 while no pair beat 0.74
BestPair(a, alo, ahi, b, blo, bhi, n, best) ==
    IF n >= (ahi - alo) * (bhi - blo)
    THEN best
    ELSE BestPair(a, alo, ahi, b, blo, bhi, n + 1,
            BetterPair(best,
                a[alo + (n % (ahi - alo)) + 1] # b[blo + (n \div (ahi - alo)) + 1],
                ratio(a[alo + (n % (ahi - alo)) + 1],
                      b[blo + (n \div (ahi - alo)) + 1]),
                alo + (n % (ahi - alo)), blo + (n \div (ahi - alo))))

RECURSIVE Repeat(_, _)
Repeat(c, n) == IF n <= 0 THEN <<>> ELSE <<c>> \o Repeat(c, n - 1)

RECURSIVE IntralineTags(_, _, _)
\* the atags (side = "a") or btags (side = "b") of the synch pair
IntralineTags(codes, side, acc) ==
    IF codes = <<>>
    THEN acc
    ELSE LET c == Head(codes)
             la == c.i2 - c.i1
             lb == c.j2 - c.j1
             add == IF c.tag = "replace"
                    THEN Repeat("^", IF side = "a" THEN la ELSE lb)
                    ELSE IF c.tag = "delete"
                    THEN (IF side = "a" THEN Repeat("-", la) ELSE <<>>)
                    ELSE IF c.tag = "insert"
                    THEN (IF side = "b" THEN Repeat("+", lb) ELSE <<>>)
                    ELSE Repeat(" ", IF side = "a" THEN la ELSE lb)
         IN  IntralineTags(Tail(codes), side, acc \o add)

_keep_original_ws(s, tag_s) ==
    [k \in 1..Min(Len(s), Len(tag_s)) |->
        IF tag_s[k] = " " /\ s[k] \in Whitespace THEN s[k] ELSE tag_s[k]]

_qformat(aline, bline, atags, btags) ==
    LET at == RStrip(_keep_original_ws(aline, atags))
        bt == RStrip(_keep_original_ws(bline, btags))
    IN  <<<<"-", " ">> \o aline>>
        \o (IF at # <<>> THEN <<<<"?", " ">> \o at \o <<"\n">>>> ELSE <<>>)
        \o <<<<"+", " ">> \o bline>>
        \o (IF bt # <<>> THEN <<<<"?", " ">> \o bt \o <<"\n">>>> ELSE <<>>)

\* the '-', '?', '+', '?' lines of the synch pair with character opcodes codes
SynchLines(aelt, belt, codes) ==
    _qformat(aelt, belt, IntralineTags(codes, "a", <<>>),
             IntralineTags(codes, "b", <<>>))

RECURSIVE _fancy_replace(_, _, _, _, _, _)
RECURSIVE _fancy_helper(_, _, _, _, _, _)
RECURSIVE FancyAround(_, _, _, _, _, _, _)
\* no line of a[alo:ahi] equals a line of b[blo:bhi] inside a replace block,
\* so the identical-pair branch (eqi) of the source is never taken
_fancy_replace(a, alo, ahi, b, blo, bhi) ==
    FancyAround(a, alo, ahi, b, blo, bhi,
                BestPair(a, alo, ahi, b, blo, bhi, 0, <<<<74, 100>>, -1, -1>>))

_fancy_helper(a, alo, ahi, b, blo, bhi) ==
    IF alo < ahi
    THEN IF blo < bhi THEN _fancy_replace(a, alo, ahi, b, blo, bhi)
         ELSE _dump("-", a, alo, ahi)
    ELSE IF blo < bhi THEN _dump("+", b, blo, bhi)
    ELSE <<>>

\* _fancy_replace after its search loop found best = <<ratio, best_i, best_j>>
FancyAround(a, alo, ahi, b, blo, bhi, best) ==
    IF RatioGt(<<75, 100>>, best[1])
    THEN _plain_replace(a, alo, ahi, b, blo, bhi)
    ELSE _fancy_helper(a, alo, best[2], b, blo, best[3])
         \o SynchLines(a[best[2] + 1], b[best[3] + 1],
                       get_opcodes(a[best[2] + 1], b[best[3] + 1]))
         \o _fancy_helper(a, best[2] + 1, ahi, b, best[3] + 1, bhi)

RECURSIVE CompareFrom(_, _, _)
CompareFrom(a, b, codes) ==
    IF codes = <<>>
    THEN <<>>
    ELSE LET c == Head(codes)
         IN  (IF c.tag = "replace"
              THEN _fancy_replace(a, c.i1, c.i2, b, c.j1, c.j2)
              ELSE IF c.tag = "delete" THEN _dump("-", a, c.i1, c.i2)
              ELSE IF c.tag = "insert" THEN _dump("+", b, c.j1, c.j2)
              ELSE _dump(" ", a, c.i1, c.i2))
             \o CompareFrom(a, b, Tail(codes))

ndiff(a, b) == CompareFrom(a, b, get_opcodes(a, b))

(***************************************************************************)
(* The colour markup renderer: get_color_table and make_str.               *)
(***************************************************************************)
\* the tag "<<body>>" as one item of a markup string
Tag(body) == "<<" \o body \o ">>"

\* the tag bodies that occur in the markup strings of the model
TagBodies ==
    {"default", "previous", "lightred", "lightgreen", "aqua", "red", "green",
     "light", "nosuch", "default;lightred", "default;lightgreen"}

IsTag(item) == \E body \in TagBodies : item = Tag(body)

\* group 1 of colorTagR for a tag item
TagBody(item) == CHOOSE body \in TagBodies : item = Tag(body)

color_numbers ==
    [red |-> 91, green |-> 92, yellow |-> 93, blue |-> 94, purple |-> 95,
     cyan |-> 96, white |-> 97, black |-> 98, grey |-> 99, gray |-> 100,
     underline |-> 4, invert |-> 7, blink |-> 5, lightblack |-> 108,
     bold |-> 1]

\* get_color_table(): the number N of the entry "\033[Nm%s\033[00m" of each
\* name, 0 for the entry 0 of "light"
get_color_table ==
    LET light ==
            [n \in {"lightpurple", "lightyellow", "lightblue", "lightred",
                    "lightgreen", "lightcyan", "lightgray"} |->
                CASE n = "lightpurple" -> color_numbers.purple
                  [] n = "lightyellow" -> color_numbers.yellow
                  [] n = "lightblue" -> color_numbers.blue
                  [] n = "lightred" -> color_numbers.red
                  [] n = "lightgreen" -> color_numbers.green
                  [] n = "lightcyan" -> color_numbers.cyan
                  [] n = "lightgray" -> color_numbers.gray]
        more ==
            [n \in {"aqua", "lightaqua", "lightgrey", "grey", "lightwhite",
                    "light"} |->
                CASE n \in {"aqua", "lightaqua"} -> color_numbers.cyan
                  [] n \in {"lightgrey", "grey", "lightwhite"} -> color_numbers.gray
                  [] n = "light" -> 0]
    IN  more @@ light @@ color_numbers

\* a table lookup that falls back to white for a missing name: the variant
\* C11 is checked against
ColorCodeOrWhite(name) ==
    IF name \in DOMAIN get_color_table
    THEN get_color_table[name]
    ELSE color_numbers.white

\* color_table.get(name, ""): 0 stands for both falsy values, "" and 0
ColorCode(name) ==
    IF name \in DOMAIN get_color_table THEN get_color_table[name] ELSE 0

\* the escape sequence "\033[Nm" as one item, and the reset "\033[00m"
Escape(n) == "ESC[" \o ToString(n) \o "m"

Reset == "ESC[00m"

\* a make_str that never emits the reset: the variant C10 is checked against
ApplyColorNoReset(n, text) == <<Escape(n)>> \o text

\* cc % text for the table entry of number n
ApplyColor(n, text) == <<Escape(n)>> \o text \o <<Reset>>

RECURSIVE SplitTexts(_, _, _)
\* colorTagR.split(textm)[::4]: the texts between the tags
SplitTexts(textm, cur, acc) ==
    IF textm = <<>>
    THEN Append(acc, cur)
    ELSE IF IsTag(Head(textm))
         THEN SplitTexts(Tail(textm), <<>>, Append(acc, cur))
         ELSE SplitTexts(Tail(textm), Append(cur, Head(textm)), acc)

RECURSIVE SplitColors(_)
\* colorTagR.split(textm)[1::4]: the bodies of the tags
SplitColors(textm) ==
    IF textm = <<>>
    THEN <<>>
    ELSE IF IsTag(Head(textm))
         THEN <<TagBody(Head(textm))>> \o SplitColors(Tail(textm))
         ELSE SplitColors(Tail(textm))

\* the state of make_str when its loop starts
MakeStrEnter(textm) ==
    [textm |-> textm,
     texts |-> SplitTexts(textm, <<>>, <<>>),
     colors |-> SplitColors(textm) \o <<"default">>,
     k |-> 1,
     color_stack |-> <<"default">>,
     toprint |-> <<>>]

\* a make_str that pops on every "previous": the variant C9 is checked against
PushOrPopUnguarded(color_stack, next_color) ==
    IF next_color = "previous"
    THEN SubSeq(color_stack, 1, Len(color_stack) - 1)
    ELSE Append(color_stack, next_color)

\* the colour stack after the tag next_color
PushOrPop(color_stack, next_color) ==
    IF next_color = "previous"
    THEN IF Len(color_stack) > 1
         THEN SubSeq(color_stack, 1, Len(color_stack) - 1)
         ELSE color_stack
    ELSE Append(color_stack, next_color)

\* the text of one loop iteration as it is added to toprint
Colored(current_color, text) ==
    LET cc == ColorCode(current_color)
    IN  IF cc # 0 THEN ApplyColor(cc, text) ELSE text

\* one iteration of the loop of make_str
MakeStrIter(st) ==
    LET text == st.texts[st.k]
        next_color == st.colors[st.k]
        current_color == st.color_stack[Len(st.color_stack)]
    IN  [st EXCEPT !.k = st.k + 1,
                   !.color_stack = PushOrPop(st.color_stack, next_color),
                   !.toprint = st.toprint \o Colored(current_color, text)]

MakeStrLooping(st) == st.k <= Len(st.texts)

RECURSIVE MakeStrRun(_)
MakeStrRun(st) == IF MakeStrLooping(st) THEN MakeStrRun(MakeStrIter(st)) ELSE st

\* a markup string holds "<<" or "\03" (here: it holds a tag)
HasMarkup(textm) == \E k \in 1..Len(textm) : IsTag(textm[k])

\* a make_str that takes the fast path for strings only: the variant C12 is
\* checked against
ReturnsInputOfStrOnly(is_str, textm) == is_str /\ ~HasMarkup(textm)

\* the two early returns of make_str: textm is no str (is_str stands for
\* isinstance(textm, str)), or it holds no markup
ReturnsInput(is_str, textm) == ~is_str \/ ~HasMarkup(textm)

\* make_str(textm) for a str textm
make_str(textm) ==
    IF ~HasMarkup(textm) THEN textm ELSE MakeStrRun(MakeStrEnter(textm)).toprint

(***************************************************************************)
(* Hunk.                                                                   *)
(***************************************************************************)
\* a range format that always writes "start,length": the variant C7 is
\* checked against
format_range_with_length(start, stop) ==
    ToString(start + 1) \o "," \o ToString(stop - start)

\* difflib._format_range_unified(start, stop)
format_range_unified(start, stop) ==
    LET beginning == start + 1
        length == stop - start
    IN  IF length = 1
        THEN ToString(beginning)
        ELSE IF length = 0
             THEN ToString(beginning - 1) \o "," \o ToString(length)
             ELSE ToString(beginning) \o "," \o ToString(length)

\* Hunk.get_header_text and the module's get_header_text, with affix "@@"
get_header_text(a_rng, b_rng) ==
    "@@ -" \o format_range_unified(a_rng[1], a_rng[2])
    \o " +" \o format_range_unified(b_rng[1], b_rng[2]) \o " @@"

\* check_line of create_diff
check_line(line) ==
    IF line # <<>> /\ line[Len(line)] = "\n" THEN line ELSE line \o <<"\n">>

\* check_line over the lines of ndiff
CheckedLines(ls) == [k \in 1..Len(ls) |-> check_line(ls[k])]

\* the lines ls with the sign and a space before each
SignedLines(sign, ls) ==
    [k \in 1..Len(ls) |-> <<sign, " ">> \o check_line(ls[k])]

\* the lines create_diff yields for one opcode
OpcodeLines(a, b, c) ==
    IF c.tag = "equal" THEN SignedLines(" ", Slice(a, c.i1, c.i2))
    ELSE IF c.tag = "delete" THEN SignedLines("-", Slice(a, c.i1, c.i2))
    ELSE IF c.tag = "insert" THEN SignedLines("+", Slice(b, c.j1, c.j2))
    ELSE CheckedLines(ndiff(Slice(a, c.i1, c.i2), Slice(b, c.j1, c.j2)))

RECURSIVE create_diff(_, _, _)
\* Hunk.create_diff over the opcodes of the group
create_diff(a, b, group) ==
    IF group = <<>>
    THEN <<>>
    ELSE OpcodeLines(a, b, Head(group)) \o create_diff(a, b, Tail(group))

\* Hunk.colors and Hunk.bg_colors
HunkColors(sign) == IF sign = "+" THEN "lightgreen" ELSE "lightred"

\* a loop body that never closes an open span: the variant C23 is checked
\* against
ColorStepNeverClosing(char, char_ref, color, color_closed) ==
    IF color_closed /\ char_ref # " "
    THEN <<<<Tag(IF char # " " THEN HunkColors(color)
                 ELSE "default;" \o HunkColors(color)), char>>, FALSE>>
    ELSE <<<<char>>, color_closed>>

\* the body of the zip_longest loop of color_line: char_tagged and
\* color_closed as it leaves them
ColorStep(char, char_ref, color, color_closed) ==
    IF color_closed
    THEN IF char_ref # " "
         THEN <<<<Tag(IF char # " " THEN HunkColors(color)
                      ELSE "default;" \o HunkColors(color)), char>>, FALSE>>
         ELSE <<<<char>>, TRUE>>
    ELSE IF char_ref = " "
         THEN <<<<Tag("default"), char>>, TRUE>>
         ELSE <<<<char>>, FALSE>>

RECURSIVE ColorWalk(_, _, _, _, _, _)
\* the zip_longest loop of color_line from position k, and the closing of
\* a span still open after it
ColorWalk(line, ref, color, k, color_closed, colored_line) ==
    IF k > Max(Len(line), Len(ref))
    THEN IF ~color_closed THEN Append(colored_line, Tag("default"))
         ELSE colored_line
    ELSE ColorWalk(line, ref, color, k + 1,
            ColorStep(IF k <= Len(line) THEN line[k] ELSE " ",
                      IF k <= Len(ref) THEN ref[k] ELSE " ",
                      color, color_closed)[2],
            colored_line \o
            ColorStep(IF k <= Len(line) THEN line[k] ELSE " ",
                      IF k <= Len(ref) THEN ref[k] ELSE " ",
                      color, color_closed)[1])

\* a color_line that leaves every line as it is: the variant C8 is checked
\* against
color_line_plain(line, line_ref) == line

\* Hunk.color_line(line, line_ref); line_ref = <<>> stands for None
color_line(line, line_ref) ==
    IF line_ref = <<>>
    THEN IF line[1] \in {"+", "-"}
         THEN <<Tag(HunkColors(line[1]))>> \o line \o <<Tag("default")>>
         ELSE line
    ELSE ColorWalk(line, Strip(line_ref), line[1], 1, TRUE, <<>>)

\* fmt[: min(len(fmt), len(line))], with "" turned into None
CutFmt(fmt, line) ==
    IF StartsWith(fmt, "?") THEN SubSeq(fmt, 1, Min(Len(fmt), Len(line)))
    ELSE <<>>

\* the last-line handling of format_diff
FormatLast(line1, line2) ==
    IF StartsWith(line2, "-") THEN <<color_line(line2, <<>>)>>
    ELSE IF StartsWith(line2, "+")
         THEN <<color_line(line2, CutFmt(line1, line2))>>
         ELSE <<>>

\* a loop body that yields the "?" lines too: the variant C24 is checked
\* against
FormatStepShowingMarkers(fmt, line1, line2) ==
    IF StartsWith(line2, "?")
    THEN <<<<color_line(line1, line2)>>,
           IF StartsWith(line1, "+") THEN <<>> ELSE line2>>
    ELSE IF StartsWith(line1, "+")
    THEN <<<<color_line(line1, CutFmt(fmt, line1))>>, line2>>
    ELSE IF line1 # <<>>
    THEN <<<<color_line(line1, <<>>)>>, line2>>
    ELSE <<<<>>, line2>>

\* the body of the loop of format_diff after
\* fmt, line1, line2 = line1, line2, line: the lines it yields, and line2 as
\* it leaves it
FormatStep(fmt, line1, line2) ==
    IF StartsWith(line1, "?")
    THEN <<<<>>, line2>>
    ELSE IF StartsWith(line2, "?")
    THEN <<<<color_line(line1, line2)>>,
           IF StartsWith(line1, "+") THEN <<>> ELSE line2>>
    ELSE IF StartsWith(line1, "-")
    THEN <<<<color_line(line1, <<>>)>>, line2>>
    ELSE IF StartsWith(line1, "+")
    THEN <<<<color_line(line1, CutFmt(fmt, line1))>>, line2>>
    ELSE <<<<>>, line2>>

RECURSIVE FormatLoop(_, _, _, _, _)
\* the loop of format_diff reading diff[k]: fmt0, line10, line20 are fmt,
\* line1, line2 before the assignment at the head of the body
FormatLoop(diff, k, fmt0, line10, line20) ==
    IF k > Len(diff)
    THEN FormatLast(line10, line20)
    ELSE FormatStep(line10, line20, diff[k])[1]
         \o FormatLoop(diff, k + 1, line10, line20,
                       FormatStep(line10, line20, diff[k])[2])

\* a format_diff whose loop starts at the line next(diff) has taken
\* already: the variant C29 is checked against
format_diff_rereading(diff) == FormatLoop(diff, 1, <<>>, <<>>, diff[1])

\* Hunk.format_diff: the coloured lines it yields (diff is never empty)
format_diff(diff) == FormatLoop(diff, 2, <<>>, <<>>, diff[1])

\* Hunk.__init__ once self.diff is made
HunkOf(group, diff) ==
    [group |-> group,
     diff |-> diff,
     diff_text |-> Flatten(format_diff(diff)),
     a_rng |-> <<group[1].i1, group[Len(group)].i2>>,
     b_rng |-> <<group[1].j1, group[Len(group)].j2>>,
     header |-> get_header_text(<<group[1].i1, group[Len(group)].i2>>,
                                <<group[1].j1, group[Len(group)].j2>>) \o "\n",
     pre_context |-> 0,
     post_context |-> 0]

\* Hunk.__init__
Hunk(a, b, group) == HunkOf(group, create_diff(a, b, group))

(***************************************************************************)
(* _Superhunk and PatchManager.                                            *)
(***************************************************************************)
\* _Superhunk.__init__
_Superhunk(hunks) ==
    [hunks |-> hunks,
     a_rng |-> <<hunks[1].a_rng[1], hunks[Len(hunks)].a_rng[2]>>,
     b_rng |-> <<hunks[1].b_rng[1], hunks[Len(hunks)].b_rng[2]>>,
     pre_context |-> hunks[1].pre_context,
     post_context |-> hunks[1].post_context]

\* a loop iteration that leaves previous_hunk.post_context as it is: the
\* variant C21 is checked against
AddHunkKeepingPost(hunks, hunk) ==
    IF hunks = <<>>
    THEN <<[hunk EXCEPT !.pre_context = hunk.a_rng[1]]>>
    ELSE Append(hunks,
                [hunk EXCEPT !.pre_context =
                                hunk.a_rng[1] - hunks[Len(hunks)].a_rng[2]])

\* one iteration of the loop of PatchManager.__init__: the new hunk gets its
\* pre_context and previous_hunk, the last of hunks, its post_context
AddHunk(hunks, hunk) ==
    IF hunks = <<>>
    THEN <<[hunk EXCEPT !.pre_context = hunk.a_rng[1]]>>
    ELSE Append([hunks EXCEPT ![Len(hunks)].post_context =
                                hunk.a_rng[1] - hunks[Len(hunks)].a_rng[2]],
                [hunk EXCEPT !.pre_context =
                                hunk.a_rng[1] - hunks[Len(hunks)].a_rng[2]])

RECURSIVE BuildHunks(_, _, _, _)
\* the loop of PatchManager.__init__ over the groups
BuildHunks(a, b, groups, hunks) ==
    IF groups = <<>>
    THEN hunks
    ELSE BuildHunks(a, b, Tail(groups),
                    AddHunk(hunks, Hunk(a, b, Head(groups))))

\* a last post_context with the subtraction turned round: the variant C28
\* is checked against
SetLastPostContextReversed(a, hunks) ==
    IF hunks # <<>>
    THEN [hunks EXCEPT ![Len(hunks)].post_context =
                          hunks[Len(hunks)].a_rng[2] - Len(a)]
    ELSE hunks

\* the post_context of the last hunk, set after the loop
SetLastPostContext(a, hunks) ==
    IF hunks # <<>>
    THEN [hunks EXCEPT ![Len(hunks)].post_context =
                          Len(a) - hunks[Len(hunks)].a_rng[2]]
    ELSE hunks

\* the hunks of PatchManager.__init__ with their contexts set
PatchHunks(a, b, groups) ==
    SetLastPostContext(a, BuildHunks(a, b, groups, <<>>))

\* a changed block whose B-range ends where its first opcode ends: the
\* variant C2 is checked against
HunkBlockFirstOpcode(hunk_idx, group) ==
    <<hunk_idx, <<group[1].i1, group[Len(group)].i2>>,
                <<group[1].j1, group[1].j2>>>>

\* the block get_blocks yields for one group:
\* (hunk_idx, (first[1], last[2]), (first[3], last[4]))
HunkBlock(hunk_idx, group) ==
    <<hunk_idx, <<group[1].i1, group[Len(group)].i2>>,
                <<group[1].j1, group[Len(group)].j2>>>>

RECURSIVE BlocksLoop(_, _, _, _)
\* the loop of get_blocks over the groups
BlocksLoop(groups, hunk_idx, i2, blocks) ==
    IF groups = <<>>
    THEN <<i2, blocks>>
    ELSE LET first == Head(groups)[1]
             last == Head(groups)[Len(Head(groups))]
             i1 == first.i1
             prev_i2 == i2
             gap == IF prev_i2 < i1
                    THEN <<<<-1, <<prev_i2, i1>>, <<-1, -1>>>>>>
                    ELSE <<>>
         IN  BlocksLoop(Tail(groups), hunk_idx + 1, last.i2,
                        blocks \o gap \o
                        <<HunkBlock(hunk_idx, Head(groups))>>)

\* a get_blocks without the trailing unchanged block: the variant C1 is
\* checked against
TrailingBlockDropped(a, r) == r[2]

\* the end of get_blocks: r = <<i2, blocks>> after the loop
TrailingBlock(a, r) ==
    IF r[1] < Len(a)
    THEN Append(r[2], <<-1, <<r[1], Len(a)>>, <<-1, -1>>>>)
    ELSE r[2]

\* PatchManager.get_blocks
get_blocks(a, groups) == TrailingBlock(a, BlocksLoop(groups, 0, 0, <<>>))

\* a grouping rule that splits at pre_context = 2 * context: the variant C3
\* is checked against
ConnectedStrictly(hunk, context) == hunk.pre_context < context * 2

\* the condition under which a hunk joins the open super hunk
Connected(hunk, context) == hunk.pre_context <= context * 2

\* a loop body that opens a new super hunk without adding it to
\* super_hunks' end, overwriting the open one: the variant C27 is checked
\* against
SuperHunkStepOverwriting(super_hunks, hunk, context) ==
    IF super_hunks[Len(super_hunks)] = <<>> \/ Connected(hunk, context)
    THEN [super_hunks EXCEPT ![Len(super_hunks)] = Append(@, hunk)]
    ELSE [super_hunks EXCEPT ![Len(super_hunks)] = <<hunk>>]

\* the body of the loop of _generate_super_hunks; the last list of
\* super_hunks is super_hunk
SuperHunkStep(super_hunks, hunk, context) ==
    IF super_hunks[Len(super_hunks)] = <<>> \/ Connected(hunk, context)
    THEN [super_hunks EXCEPT ![Len(super_hunks)] = Append(@, hunk)]
    ELSE Append(super_hunks, <<hunk>>)

RECURSIVE SuperHunkLoop(_, _, _)
\* the loop of _generate_super_hunks
SuperHunkLoop(hunks, context, super_hunks) ==
    IF hunks = <<>>
    THEN super_hunks
    ELSE SuperHunkLoop(Tail(hunks), context,
                       SuperHunkStep(super_hunks, Head(hunks), context))

\* the lists of hunks that _generate_super_hunks makes _Superhunks of
SuperHunkLists(hunks, context) ==
    IF context # 0
    THEN SuperHunkLoop(hunks, context, <<<<>>>>)
    ELSE [k \in 1..Len(hunks) |-> <<hunks[k]>>]

\* [_Superhunk(sh) for sh in super_hunks]
SuperHunksOf(lists) == [k \in 1..Len(lists) |-> _Superhunk(lists[k])]

\* PatchManager._generate_super_hunks
_generate_super_hunks(hunks, context) ==
    IF hunks = <<>> THEN <<>> ELSE SuperHunksOf(SuperHunkLists(hunks, context))

\* PatchManager._get_context_range
_get_context_range(super_hunk, context) ==
    LET pre == Min(super_hunk.pre_context, context)
        post == Min(super_hunk.post_context, context)
    IN  <<<<super_hunk.a_rng[1] - pre, super_hunk.a_rng[2] + post>>,
          <<super_hunk.b_rng[1] - pre, super_hunk.b_rng[2] + post>>>>

\* extend_context of _generate_diff
extend_context(a, start, end) ==
    LET ls == Slice(a, start, end)
    IN  Flatten([k \in 1..Len(ls) |-> <<" ", " ">> \o RStrip(ls[k]) \o <<"\n">>])

RECURSIVE MembersText(_, _, _)
\* the loop of _generate_diff over the member hunks from the k-th on
MembersText(a, hunks, k) ==
    IF k > Len(hunks)
    THEN <<>>
    ELSE (IF k > 1
          THEN extend_context(a, hunks[k - 1].a_rng[2], hunks[k].a_rng[1])
          ELSE <<>>)
         \o hunks[k].diff_text
         \o MembersText(a, hunks, k + 1)

\* a _generate_diff that writes the leading context lines after the member
\* hunks: the variant C25 is checked against
DiffTextContextAfter(a, hunks, context_range) ==
    <<Tag("aqua"), get_header_text(context_range[1], context_range[2]),
      Tag("default"), "\n">>
    \o MembersText(a, hunks.hunks, 1)
    \o extend_context(a, context_range[1][1], hunks.hunks[1].a_rng[1])
    \o extend_context(a, hunks.hunks[Len(hunks.hunks)].a_rng[2],
                      context_range[1][2])

\* _generate_diff once context_range is known
DiffText(a, hunks, context_range) ==
    <<Tag("aqua"), get_header_text(context_range[1], context_range[2]),
      Tag("default"), "\n">>
    \o extend_context(a, context_range[1][1], hunks.hunks[1].a_rng[1])
    \o MembersText(a, hunks.hunks, 1)
    \o extend_context(a, hunks.hunks[Len(hunks.hunks)].a_rng[2],
                      context_range[1][2])

\* PatchManager._generate_diff
_generate_diff(a, hunks, context) ==
    DiffText(a, hunks, _get_context_range(hunks, context))

RECURSIVE JoinLines(_)
\* "\n".join(parts)
JoinLines(parts) ==
    IF parts = <<>> THEN <<>>
    ELSE IF Len(parts) = 1 THEN parts[1]
    ELSE parts[1] \o <<"\n">> \o JoinLines(Tail(parts))

\* PatchManager.__init__ once self.groups and self.hunks are made
PatchOf(text_a, text_b, context, groups, hunks) ==
    [a |-> text_a,
     b |-> text_b,
     groups |-> groups,
     hunks |-> hunks,
     blocks |-> get_blocks(text_a, groups),
     context |-> context,
     super_hunks |-> _generate_super_hunks(hunks, context)]

\* PatchManager.__init__ once self.groups is made
PatchOfGroups(text_a, text_b, context, groups) ==
    PatchOf(text_a, text_b, context, groups, PatchHunks(text_a, text_b, groups))

\* PatchManager(text_a, text_b, context) after __init__
PatchManager(text_a, text_b, context) ==
    PatchOfGroups(text_a, text_b, context,
                  get_grouped_opcodes(text_a, text_b, 0))

\* what print_hunks hands to output(), when it does
PrintedText(p) ==
    JoinLines([k \in 1..Len(p.super_hunks) |->
                  _generate_diff(p.a, p.super_hunks[k], p.context)])

(***************************************************************************)
(* utils/text_utils.py.  A text is a sequence of one-character strings;    *)
(* the letters of the Arabic word for "category" are written "<ta>",       *)
(* "<sad>", "<nun>", "<ya>", "<fa>", each standing for one character.      *)
(***************************************************************************)
\* the characters of a Python string literal, one per element
Chars(str) ==
    CASE str = "Category" -> <<"C", "a", "t", "e", "g", "o", "r", "y">>
      [] str = "category" -> <<"c", "a", "t", "e", "g", "o", "r", "y">>
      [] str = "tasnif" -> <<"<ta>", "<sad>", "<nun>", "<ya>", "<fa>">>
      [] str = "[[" -> <<"[", "[">>
      [] str = "]]" -> <<"]", "]">>
      [] str = ":" -> <<":">>
      [] str = "" -> <<>>
      [] str = "stub" -> <<"s", "t", "u", "b">>
      [] str = "maintenance" ->
            <<"m", "a", "i", "n", "t", "e", "n", "a", "n", "c", "e">>
      [] str = "bidhra" -> <<"<ba>", "<dhal>", "<ra>", "<ta_marbuta>">>
      [] str = "budhur" -> <<"<ba>", "<dhal>", "<waw>", "<ra>">>
      [] str = "siyana" ->
            <<"<sad>", "<ya>", "<alif>", "<nun>", "<ta_marbuta>">>

UpperCase ==
    [a |-> "A", b |-> "B", c |-> "C", e |-> "E", g |-> "G", i |-> "I",
     k |-> "K", m |-> "M", n |-> "N", o |-> "O", r |-> "R", s |-> "S",
     t |-> "T", u |-> "U", x |-> "X", y |-> "Y"]

\* c.lower() for the letters of the model
Lower(c) ==
    IF \E l \in DOMAIN UpperCase : UpperCase[l] = c
    THEN CHOOSE l \in DOMAIN UpperCase : UpperCase[l] = c
    ELSE c

\* s.lower()
LowerAll(s) == [k \in 1..Len(s) |-> Lower(s[k])]

\* the positions after a match of \s* that starts at position i of text
AfterSpaces(text, i) ==
    {j \in i..(Len(text) + 1) : \A k \in i..(j - 1) : text[k] \in Whitespace}

\* the positions after a match of the escaped literal lit at position i,
\* under re.IGNORECASE
AfterLiteral(text, i, lit) ==
    IF /\ i + Len(lit) - 1 <= Len(text)
       /\ \A k \in 1..Len(lit) : Lower(text[i + k - 1]) = Lower(lit[k])
    THEN {i + Len(lit)}
    ELSE {}

\* the positions after a match of (?:\|[^\]]*?)? at position i
AfterSortKey(text, i) ==
    {i} \cup
    {j \in (i + 1)..(Len(text) + 1) :
        /\ text[i] = "|"
        /\ \A k \in (i + 1)..(j - 1) : text[k] # "]"}

\* the positions after a match of \s*lit, from any position of the set from
AfterSpacesLiteral(text, from, lit) ==
    UNION {UNION {AfterLiteral(text, j, lit) : j \in AfterSpaces(text, i)} :
              i \in from}

\* the positions after a match of \s*(?:\|[^\]]*?)?\]\]
AfterTail(text, from) ==
    UNION {UNION {UNION {AfterLiteral(text, k, Chars("]]")) :
                            k \in AfterSortKey(text, j)} :
                     j \in AfterSpaces(text, i)} :
              i \in from}

\* re.match of _build_category_pattern(category_name, prefix) at position
\* i of text, for one alternative prefix of the prefix pattern
MatchesAt(text, i, prefix, category_name) ==
    AfterTail(text,
        AfterSpacesLiteral(text,
            AfterSpacesLiteral(text,
                AfterSpacesLiteral(text, AfterLiteral(text, i, Chars("[[")),
                                   prefix),
                Chars(":")),
            category_name)) # {}

\* bool(re.search(_build_category_pattern(category_name, prefix_pattern),
\* text, re.IGNORECASE)), prefixes being the alternatives of prefix_pattern
CategoryPatternFound(text, prefixes, category_name) ==
    \E i \in 1..Len(text) :
        \E prefix \in prefixes : MatchesAt(text, i, prefix, category_name)

\* a category_in_text that looks for the prefix Category only: the variant
\* C30 is checked against
category_in_text_of_category(text, category_name) ==
    CategoryPatternFound(text, {Chars("Category")}, category_name)

\* category_in_text(text, category_name)
category_in_text(text, category_name) ==
    CategoryPatternFound(text, {Chars("tasnif"), Chars("Category")},
                            category_name)

\* the index of the first ":" of s, 0 if there is none
FirstColon(s) ==
    IF \E k \in 1..Len(s) : s[k] = ":"
    THEN CHOOSE k \in 1..Len(s) : s[k] = ":" /\ \A m \in 1..(k - 1) : s[m] # ":"
    ELSE 0

\* category_target.split(':', 1)[1] if ':' in category_target, else
\* category_target
WithoutPrefix(category_target) ==
    IF FirstColon(category_target) # 0
    THEN SubSeq(category_target, FirstColon(category_target) + 1,
                Len(category_target))
    ELSE category_target

\* en_page_has_category_in_text(text, category_target), page_title being
\* left at its default "" (no year range substitution)
en_page_has_category_in_text(text, category_target) ==
    CategoryPatternFound(text, {Chars("Category")},
                            WithoutPrefix(category_target))

\* sub in s, for two strings
Contains(s, sub) ==
    \E i \in 0..(Len(s) - Len(sub)) : SubSeq(s, i + 1, i + Len(sub)) = sub

\* is_ar_stub_or_maintenance_category(category_name); "bidhra", "budhur"
\* and "siyana" stand for the Arabic words for stub, stubs and maintenance
is_ar_stub_or_maintenance_category(category_name) ==
    \/ /\ Len(WithoutPrefix(category_name)) >= Len(Chars("bidhra"))
       /\ SubSeq(WithoutPrefix(category_name), 1, Len(Chars("bidhra")))
             = Chars("bidhra")
    \/ Contains(WithoutPrefix(category_name), Chars("budhur"))
    \/ Contains(WithoutPrefix(category_name), Chars("siyana"))

\* is_en_stub_or_maintenance_category(category_name)
is_en_stub_or_maintenance_category(category_name) ==
    \/ Contains(LowerAll(WithoutPrefix(category_name)), Chars("stub"))
    \/ Contains(LowerAll(WithoutPrefix(category_name)), Chars("maintenance"))

(***************************************************************************)
(* unused_categories_bot.py: confirm_edit and add_category_to_page.        *)
(***************************************************************************)
RECURSIVE SplitLinesFrom(_, _, _)
\* the lines of text after acc, cur being the line that is open
SplitLinesFrom(text, cur, acc) ==
    IF text = <<>>
    THEN IF cur = <<>> THEN acc ELSE Append(acc, cur)
    ELSE IF Head(text) = "\n"
         THEN SplitLinesFrom(Tail(text), <<>>, Append(acc, Append(cur, "\n")))
         ELSE SplitLinesFrom(Tail(text), Append(cur, Head(text)), acc)

\* text.splitlines(keepends=True), "\n" being the only line break of the
\* texts of the model
splitlines(text) == SplitLinesFrom(text, <<>>, <<>>)

\* the lines ls, each after the sign c
Prefixed(c, ls) == [k \in 1..Len(ls) |-> <<c>> \o ls[k]]

\* the lines difflib.unified_diff yields for one opcode
UnifiedOpcodeLines(a, b, c) ==
    IF c.tag = "equal"
    THEN Prefixed(" ", Slice(a, c.i1, c.i2))
    ELSE (IF c.tag \in {"replace", "delete"}
          THEN Prefixed("-", Slice(a, c.i1, c.i2))
          ELSE <<>>)
         \o (IF c.tag \in {"replace", "insert"}
             THEN Prefixed("+", Slice(b, c.j1, c.j2))
             ELSE <<>>)

\* the lines difflib.unified_diff yields for one group: its "@@" line
\* (one item) and the lines of its opcodes
UnifiedGroupLines(a, b, group) ==
    <<<<get_header_text(<<group[1].i1, group[Len(group)].i2>>,
                        <<group[1].j1, group[Len(group)].j2>>)>>>>
    \o Flatten([k \in 1..Len(group) |-> UnifiedOpcodeLines(a, b, group[k])])

\* the lines of difflib.unified_diff once the groups are known
UnifiedLines(a, b, groups) ==
    IF groups = <<>>
    THEN <<>>
    ELSE <<<<"--- before">>, <<"+++ after">>>>
         \o Flatten([k \in 1..Len(groups) |->
                        UnifiedGroupLines(a, b, groups[k])])

\* difflib.unified_diff(a, b, fromfile='before', tofile='after',
\* lineterm=''), with its default of 3 context lines
unified_diff(a, b) == UnifiedLines(a, b, get_grouped_opcodes(a, b, 3))

\* a confirm_edit that asks whenever auto-approve is unset: the variant C16
\* is checked against
ReturnsAtOnceIfApproved(auto_approve_all, ask_mode) == auto_approve_all

\* the two early returns of confirm_edit: auto-approve is set, or ask mode
\* is not
ReturnsAtOnce(auto_approve_all, ask_mode) == auto_approve_all \/ ~ask_mode

\* the line of 60 "=" that confirm_edit prints, as one item
Rule == "====="

\* a confirm_edit that prints no diff: the variant C13 is checked against
ConfirmPrintsWithoutDiff(page_title, diff_text) ==
    <<<<"\n", Rule>>, <<"Target: ", page_title>>, <<Rule>>, <<Rule>>,
      <<"Options: [y]es / [n]o / [a]ll (approve all remaining)">>>>

\* what confirm_edit prints before it prompts, one element per print
ConfirmPrints(page_title, diff_text) ==
    <<<<"\n", Rule>>, <<"Target: ", page_title>>, <<Rule>>>>
    \o (IF diff_text # <<>>
        THEN <<<<"Diff:">>, diff_text>>
        ELSE <<<<"No changes detected.">>>>)
    \o <<<<Rule>>,
         <<"Options: [y]es / [n]o / [a]ll (approve all remaining)">>>>

\* input(...).strip().lower()
Response(raw) == LowerAll(Strip(raw))

\* the responses that let the one edit proceed
YesResponses == {<<>>, <<"y">>, <<"y", "e", "s">>}

\* an answer that approves whatever is typed after 'a': the variant C15 is
\* checked against
ApprovesAllPrefix(response) == response # <<>> /\ response[1] = "a"

\* the response that approves all remaining edits
ApprovesAll(response) == response = <<"a">>

\* a new text that keeps the trailing whitespace: the variant C17 is checked
\* against
NewTextUnstripped(text, category_name) ==
    text \o <<"\n">> \o Chars("[[") \o Chars("tasnif") \o Chars(":")
    \o category_name \o Chars("]]")

\* the text add_category_to_page saves:
\* text.rstrip() + f"\n[[<tasnif>:{category_name}]]"
NewText(text, category_name) ==
    RStrip(text) \o <<"\n">> \o Chars("[[") \o Chars("tasnif") \o Chars(":")
    \o category_name \o Chars("]]")

(***************************************************************************)
(* The inputs of the model.                                                *)
(***************************************************************************)
\* every sequence of at most n elements of S
SeqsUpTo(S, n) == UNION {[1..k -> S] : k \in 0..n}

\* the lines "a\n", "b\n" and "x\n"
LineA == <<"a", "\n">>

LineB == <<"b", "\n">>

LineX == <<"x", "\n">>

\* the line "<k>\n" for 1 <= k <= 99
NumberedLine(k) ==
    IF k < 10 THEN <<ToString(k), "\n">>
    ELSE <<ToString(k \div 10), ToString(k % 10), "\n">>

\* "1\n2\n...<n>\n"
NumberedText(n) == [k \in 1..n |-> NumberedLine(k)]

RECURSIVE Without(_, _, _)
\* text without its lines at the (1-based) positions of D, from position k
Without(text, D, k) ==
    IF k > Len(text) THEN <<>>
    ELSE (IF k \in D THEN <<>> ELSE <<text[k]>>) \o Without(text, D, k + 1)

\* every pair of short texts over a small set of lines: text_b may hold a
\* line that text_a cannot
SmallPairs ==
    SeqsUpTo({LineA, LineB}, MaxLen) \X SeqsUpTo({LineA, LineB, LineX}, MaxLen)

\* a long text of distinct lines and the same text with a few lines deleted
DeletionPairs ==
    {<<NumberedText(MaxUnique), Without(NumberedText(MaxUnique), D, 1)>> :
        D \in {E \in SUBSET (1..MaxUnique) : Cardinality(E) <= MaxDeleted}}

\* "line1\nline2\nline3\n" and "line1\nlineX\nline3\n"
ReplaceScenario ==
    LET l(c) == <<"l", "i", "n", "e", c, "\n">>
    IN  <<<<l("1"), l("2"), l("3")>>, <<l("1"), l("X"), l("3")>>>>

\* "a\nb\n" and "a\nx\nb\n"
InsertScenario == <<<<LineA, LineB>>, <<LineA, LineX, LineB>>>>

\* lines that resemble one another enough (ratio above 0.75) for ndiff to
\* mark the characters that differ, one of them with a space put in, and a
\* line that resembles none
SimilarLines ==
    {<<"a", "b", "c", "\n">>, <<"a", "b", "c", "d", "\n">>,
     <<"a", "b", "c", "x", "\n">>, <<"a", "b", " ", "c", "\n">>,
     <<"x", "\n">>}

\* every pair of short texts of such lines
SimilarPairs ==
    SeqsUpTo(SimilarLines, MaxSimilar) \X SeqsUpTo(SimilarLines, MaxSimilar)

PatchInputs == SmallPairs \cup DeletionPairs \cup {ReplaceScenario, InsertScenario}

\* the markup strings given to make_str: text items and tags
MarkupItems ==
    {"t", Tag("red"), Tag("lightgreen"), Tag("nosuch"), Tag("previous"),
     Tag("default")}

MarkupInputs == SeqsUpTo(MarkupItems, MaxItems)

\* "[[prefix:name]]"
Link(prefix, name) ==
    Chars("[[") \o prefix \o Chars(":") \o name \o Chars("]]")

\* the pieces page texts are made of: plain characters, category links in
\* several spellings, an unclosed link
TextPieces ==
    {<<"x">>, <<" ">>, <<"\n">>, Chars("]]"),
     Link(Chars("Category"), <<"A">>),
     Link(Chars("Category"), <<"B">>),
     Link(Chars("Category"), <<"A", ":", "B">>),
     Link(Chars("category"), <<" ", "a", "|", "k">>),
     Link(<<" ">> \o Chars("Category") \o <<" ">>, <<" ", "B", " ">>),
     Link(Chars("tasnif"), <<"A">>),
     Chars("[[") \o Chars("Category") \o <<":", "A">>}

\* the page texts
PageTexts == {Flatten(ps) : ps \in SeqsUpTo(TextPieces, MaxPieces)}

\* the category names, without prefix
CategoryNames == {<<"A">>, <<"B">>, <<"a">>, <<"A", ":", "B">>}

\* the pieces the texts of the bot's page are made of
BotPieces ==
    {<<"x">>, <<"\n">>, Link(Chars("Category"), <<"A">>),
     Link(Chars("tasnif"), <<"B">>)}

\* the texts the bot's page starts with
BotTexts == {Flatten(ps) : ps \in SeqsUpTo(BotPieces, MaxPieces)}

\* what page.redirects_to() does: it returns a page, returns None, or
\* raises one of the two errors is_redirect_page handles
RedirectsTo == {"target", "None", "APIError", "AttributeError"}

\* what page.save() does: it returns, or raises one of the two errors
\* add_category_to_page handles
SaveOutcomes == {"saved", "APIError", "EditError"}

\* the pages add_category_to_page is called on: name, text, what
\* redirects_to() does, and saves, the category names the page was saved
\* for so far, in order
Pages ==
    [name : {"P"}, text : BotTexts, redirects_to : RedirectsTo,
     saves : {<<>>}]

\* old_text and new_text of the direct calls of confirm_edit
ConfirmPairs ==
    {<<<<"x", "\n">>, <<"x", "\n">>>>,
     <<<<"x", "\n">>, <<"x", "\n", "y", "\n">>>>,
     <<<<"x", "\n", "y", "\n">>, <<"y", "\n">>>>}

\* what the user types at the prompt
Responses ==
    {<<>>, <<"y">>, <<"Y">>, <<"y", "e", "s">>, <<" ", "Y", "E", "S", " ">>,
     <<"a">>, <<" ", "A">>, <<"n">>, <<"y", "e">>, <<"a", "a">>}

\* the category names process_category is called with: with and without
\* the Arabic prefix, with a colon of their own, stub and maintenance names
ArCategoryNames ==
    {Chars("tasnif") \o <<":", "A">>,
     <<"A">>,
     Chars("tasnif") \o <<":", "A", ":", "B">>,
     Chars("tasnif") \o <<":">> \o Chars("bidhra") \o <<" ", "A">>,
     Chars("tasnif") \o <<":", "A", " ">> \o Chars("budhur"),
     Chars("tasnif") \o <<":">> \o Chars("siyana") \o <<" ", "A">>}

\* the titles langlinks() gives for "en"
EnCategoryTitles ==
    {Chars("Category") \o <<":", "A">>,
     Chars("Category") \o <<":", "A", ":", "B">>,
     Chars("Category") \o <<":", "A", " ", "S", "t", "u", "b", "s">>,
     Chars("Category") \o <<":">> \o Chars("maintenance")}

\* what get_interwiki_link returns: a title, or None (written <<>>) when
\* there is no link or langlinks() raised
InterwikiLinks(titles) == titles \cup {<<>>}

\* what the categoryinfo query does: 'hidden' is True, is False or is
\* missing, or the query raises one of the errors is_hidden_category handles
HiddenOutcomes == {"True", "False", "missing", "APIError", "KeyError"}

\* the texts of the members of the English category
MemberTexts ==
    {<<"x">>,
     Link(Chars("Category"), <<"A">>),
     Link(Chars("category"), <<" ", "a", "|", "k">>),
     Link(Chars("Category"), <<"B">>),
     Link(Chars("Category"), <<"A", ":", "B">>),
     Link(Chars("Category"), <<"A", " ", "S", "t", "u", "b", "s">>)}

\* the Arabic articles of the members
ArArticles ==
    [name : {"P"},
     text : {<<"x", "\n">>, Link(Chars("tasnif"), <<"A">>)},
     redirects_to : {"None", "target"},
     saves : {<<>>}]

\* arguments of make_str that are no str: lists of a few strings
NonStrInputs == SeqsUpTo({"t", Tag("red")}, 2)

\* the arguments make_str is called with, each with isinstance(textm, str)
MakeStrArguments ==
    ({TRUE} \X MarkupInputs) \cup ({FALSE} \X NonStrInputs)

(***************************************************************************)
(* State.                                                                  *)
(***************************************************************************)
VARIABLES
    pc,       \* where showDiff is: "new", "built" (PatchManager made), "printed"
    text_a,   \* the lines of showDiff's text_a
    text_b,   \* the lines of showDiff's text_b
    ctx,      \* showDiff's context
    pm,       \* the PatchManager
    stdout,   \* what output() printed, one element per call
    ms,       \* the running make_str call
    tx,       \* the calls of the functions of text_utils on one text
    bot       \* the bot: its two flags, the page, the running call

vars == <<pc, text_a, text_b, ctx, pm, stdout, ms, tx, bot>>

\* the state of utils/diff.py
diffVars == <<pc, text_a, text_b, ctx, pm, stdout, ms>>

patchVars == <<pc, text_a, text_b, ctx, pm, stdout>>

\* no PatchManager yet
NoPatch ==
    [a |-> <<>>, b |-> <<>>, groups |-> <<>>, hunks |-> <<>>, blocks |-> <<>>,
     context |-> 0, super_hunks |-> <<>>]

\* no make_str call
NoCall == [pc |-> "idle"]

\* no call of text_utils
NoText == [pc |-> "idle"]

\* no bot
NoBot == [pc |-> "off"]

\* no page
NoPage == [name |-> "", text |-> <<>>, redirects_to |-> "None", saves |-> <<>>]

\* no call of process_category
NoProcess == [pc |-> "none"]

\* the bot with nothing running: the two module globals, the page, and what
\* the last call of one of its functions did
\*   call, category_name, page_title, old_text, new_text: the running (or
\*       last) call and its arguments
\*   trace: the calls it made of page.redirects_to, page.text,
\*       difflib.unified_diff, input and page.save, in order
\*   printed: what it printed, one element per print
\*   raw, response: what input() returned, and the same stripped and
\*       lower-cased
\*   confirmed, confirm_ret: confirm_edit has returned, and its result
\*   saved: the texts given to page.save
\*   returned, ret: the call has returned, and its result
\*   proc: the running call of process_category
Idle(ask, auto, page) ==
    [pc |-> "idle", _ask_mode |-> ask, _auto_approve_all |-> auto,
     page |-> page, call |-> "none", category_name |-> <<>>,
     page_title |-> "", old_text |-> <<>>, new_text |-> <<>>,
     trace |-> <<>>, printed |-> <<>>, raw |-> <<>>, response |-> <<>>,
     confirmed |-> FALSE, confirm_ret |-> FALSE, saved |-> <<>>,
     returned |-> FALSE, ret |-> FALSE, proc |-> NoProcess]

(***************************************************************************)
(* showDiff(text_a, text_b, context):                                      *)
(* PatchManager(text_a, text_b, context=context).print_hunks()             *)
(***************************************************************************)
InitPatch ==
    /\ pc = "new"
    /\ \E inp \in PatchInputs : text_a = inp[1] /\ text_b = inp[2]
    /\ ctx \in 0..MaxContext
    /\ pm = NoPatch
    /\ stdout = <<>>
    /\ ms = NoCall
    /\ tx = NoText
    /\ bot = NoBot

\* PatchManager.__init__
NewPatchManager ==
    /\ pc = "new"
    /\ pm' = PatchManager(text_a, text_b, ctx)
    /\ pc' = "built"
    /\ UNCHANGED <<text_a, text_b, ctx, stdout, ms, tx, bot>>

\* output(textm): print(make_str(textm))
output(sink, textm) == Append(sink, make_str(textm))

\* a print_hunks that prints whether or not there are hunks: the variant C6
\* is checked against
PrintHunksToAlways(sink, p) == output(sink, PrintedText(p))

\* what print_hunks leaves in the sink
PrintHunksTo(sink, p) ==
    IF p.hunks # <<>> THEN output(sink, PrintedText(p)) ELSE sink

\* PatchManager.print_hunks
print_hunks ==
    /\ pc = "built"
    /\ stdout' = PrintHunksTo(stdout, pm)
    /\ pc' = "printed"
    /\ UNCHANGED <<text_a, text_b, ctx, pm, ms, tx, bot>>

NextPatch == NewPatchManager \/ print_hunks

SpecPatch == InitPatch /\ [][NextPatch]_vars

(***************************************************************************)
(* showDiff(text_a, text_b) with the default context, on texts whose lines *)
(* resemble one another: the hunks hold the "?" lines of ndiff.            *)
(***************************************************************************)
InitHunk ==
    /\ pc = "new"
    /\ \E inp \in SimilarPairs : text_a = inp[1] /\ text_b = inp[2]
    /\ ctx = 0
    /\ pm = NoPatch
    /\ stdout = <<>>
    /\ ms = NoCall
    /\ tx = NoText
    /\ bot = NoBot

SpecHunk == InitHunk /\ [][NextPatch]_vars

(***************************************************************************)
(* make_str(textm), one loop iteration at a time.                          *)
(***************************************************************************)
InitColor ==
    /\ pc = "idle"
    /\ text_a = <<>>
    /\ text_b = <<>>
    /\ ctx = 0
    /\ pm = NoPatch
    /\ stdout = <<>>
    /\ tx = NoText
    /\ bot = NoBot
    /\ \E arg \in MakeStrArguments :
          ms = [pc |-> "call", ret |-> <<>>, is_str |-> arg[1]]
               @@ [MakeStrEnter(arg[2]) EXCEPT !.texts = <<>>, !.colors = <<>>]

\* the fast path, or the split of the text at its tags
MakeStrSplit ==
    /\ ms.pc = "call"
    /\ ms' = IF ReturnsInput(ms.is_str, ms.textm)
             THEN [ms EXCEPT !.pc = "done", !.ret = ms.textm]
             ELSE [pc |-> "loop", ret |-> <<>>, is_str |-> ms.is_str]
                  @@ MakeStrEnter(ms.textm)
    /\ UNCHANGED <<patchVars, tx, bot>>

\* one iteration of the loop
MakeStrStep ==
    /\ ms.pc = "loop"
    /\ MakeStrLooping(ms)
    /\ ms' = MakeStrIter(ms)
    /\ UNCHANGED <<patchVars, tx, bot>>

\* return toprint
MakeStrReturn ==
    /\ ms.pc = "loop"
    /\ ~MakeStrLooping(ms)
    /\ ms' = [ms EXCEPT !.pc = "done", !.ret = ms.toprint]
    /\ UNCHANGED <<patchVars, tx, bot>>

NextColor == MakeStrSplit \/ MakeStrStep \/ MakeStrReturn

SpecColor == InitColor /\ [][NextColor]_vars

(***************************************************************************)
(* The functions of utils/text_utils.py, each called once on one text and  *)
(* one category name.                                                      *)
(***************************************************************************)
InitText ==
    /\ pc = "idle"
    /\ text_a = <<>>
    /\ text_b = <<>>
    /\ ctx = 0
    /\ pm = NoPatch
    /\ stdout = <<>>
    /\ ms = NoCall
    /\ bot = NoBot
    /\ \E text \in PageTexts, category_name \in CategoryNames :
          tx = [pc |-> "calls", text |-> text, category_name |-> category_name,
                returned |-> {}, plain |-> FALSE, prefixed |-> FALSE,
                found |-> FALSE]

\* en_page_has_category_in_text(text, category_name)
EnPageHasCategory ==
    /\ tx.pc = "calls"
    /\ "plain" \notin tx.returned
    /\ tx' = [tx EXCEPT
                !.returned = @ \cup {"plain"},
                !.plain = en_page_has_category_in_text(tx.text, tx.category_name)]
    /\ UNCHANGED <<diffVars, bot>>

\* en_page_has_category_in_text(text, "Category:" + category_name)
EnPageHasCategoryPrefixed ==
    /\ tx.pc = "calls"
    /\ "prefixed" \notin tx.returned
    /\ tx' = [tx EXCEPT
                !.returned = @ \cup {"prefixed"},
                !.prefixed = en_page_has_category_in_text(tx.text,
                    Chars("Category") \o Chars(":") \o tx.category_name)]
    /\ UNCHANGED <<diffVars, bot>>

\* category_in_text(text, category_name)
CategoryInText ==
    /\ tx.pc = "calls"
    /\ "found" \notin tx.returned
    /\ tx' = [tx EXCEPT
                !.returned = @ \cup {"found"},
                !.found = category_in_text(tx.text, tx.category_name)]
    /\ UNCHANGED <<diffVars, bot>>

NextText == EnPageHasCategory \/ EnPageHasCategoryPrefixed \/ CategoryInText

SpecText == InitText /\ [][NextText]_vars

(***************************************************************************)
(* The bot: set_ask_mode, confirm_edit and add_category_to_page, called    *)
(* one after the other on one page, each step ending at a call of the      *)
(* page, of input() or of another function of the bot.                     *)
(***************************************************************************)
InitBot ==
    /\ pc = "idle"
    /\ text_a = <<>>
    /\ text_b = <<>>
    /\ ctx = 0
    /\ pm = NoPatch
    /\ stdout = <<>>
    /\ ms = NoCall
    /\ tx = NoText
    /\ \E page \in Pages : bot = Idle(FALSE, FALSE, page)

\* the running call returns value
Returned(b, value) == [b EXCEPT !.pc = "idle", !.returned = TRUE, !.ret = value]

\* confirm_edit returns value: to its caller add_category_to_page, which
\* saves or returns False, or to the top
ConfirmResult(b, value) ==
    IF b.call = "confirm_edit"
    THEN Returned([b EXCEPT !.confirmed = TRUE, !.confirm_ret = value], value)
    ELSE IF value
         THEN [b EXCEPT !.confirmed = TRUE, !.confirm_ret = TRUE, !.pc = "save"]
         ELSE Returned([b EXCEPT !.confirmed = TRUE, !.confirm_ret = FALSE],
                       FALSE)

\* a set_ask_mode that also clears auto-approve: the variant C14 is checked
\* against
SetAskModeClearing ==
    /\ bot.pc = "idle"
    /\ \E enabled \in BOOLEAN :
          bot' = [Idle(enabled, FALSE, bot.page) EXCEPT
                    !.call = "set_ask_mode", !.returned = TRUE]
    /\ UNCHANGED <<diffVars, tx>>

\* set_ask_mode(enabled)
SetAskMode ==
    /\ bot.pc = "idle"
    /\ \E enabled \in BOOLEAN :
          bot' = [Idle(enabled, bot._auto_approve_all, bot.page) EXCEPT
                    !.call = "set_ask_mode", !.returned = TRUE]
    /\ UNCHANGED <<diffVars, tx>>

\* a call of confirm_edit(page_title, old_text, new_text) from the top
ConfirmEditCall ==
    /\ bot.pc = "idle"
    /\ \E pair \in ConfirmPairs :
          bot' = [Idle(bot._ask_mode, bot._auto_approve_all, bot.page) EXCEPT
                    !.call = "confirm_edit", !.pc = "confirm_edit",
                    !.page_title = "T", !.old_text = pair[1],
                    !.new_text = pair[2]]
    /\ UNCHANGED <<diffVars, tx>>

\* confirm_edit up to its prompt: the two early returns, or the target,
\* the diff and the options printed
ConfirmEditEnter ==
    /\ bot.pc = "confirm_edit"
    /\ bot' = IF ReturnsAtOnce(bot._auto_approve_all, bot._ask_mode)
              THEN ConfirmResult(bot, TRUE)
              ELSE [bot EXCEPT
                      !.pc = "input",
                      !.trace = Append(@, "unified_diff"),
                      !.printed = @ \o ConfirmPrints(bot.page_title,
                          Flatten(unified_diff(splitlines(bot.old_text),
                                               splitlines(bot.new_text))))]
    /\ UNCHANGED <<diffVars, tx>>

\* confirm_edit after input() has returned: b.response is the answer
AfterResponse(b) ==
    IF b.response \in YesResponses
    THEN ConfirmResult(b, TRUE)
    ELSE IF ApprovesAll(b.response)
         THEN ConfirmResult(
                  [b EXCEPT !._auto_approve_all = TRUE,
                            !.printed = Append(@,
                                <<"Auto-approving all remaining edits.">>)],
                  TRUE)
         ELSE ConfirmResult(
                  [b EXCEPT !.printed = Append(@, <<"Edit skipped.">>)], FALSE)

\* confirm_edit from its prompt on
ConfirmEditInput ==
    /\ bot.pc = "input"
    /\ \E raw \in Responses :
          bot' = AfterResponse([bot EXCEPT !.trace = Append(@, "input"),
                                          !.raw = raw,
                                          !.response = Response(raw)])
    /\ UNCHANGED <<diffVars, tx>>

\* a call of add_category_to_page(page, category_name, summary)
AddCategoryCall ==
    /\ bot.pc = "idle"
    /\ \E category_name \in CategoryNames :
          bot' = [Idle(bot._ask_mode, bot._auto_approve_all, bot.page) EXCEPT
                    !.call = "add_category_to_page",
                    !.pc = "is_redirect_page",
                    !.category_name = category_name]
    /\ UNCHANGED <<diffVars, tx>>

\* an add_category_to_page that goes on whatever the redirect check says:
\* the variant C18 is checked against
AfterRedirectsToIgnored(b) == [b EXCEPT !.pc = "text"]

\* is_redirect_page(page) within add_category_to_page, b being the bot
\* after the call of page.redirects_to()
AfterRedirectsTo(b) ==
    IF b.page.redirects_to = "target"
    THEN Returned(b, FALSE)
    ELSE IF b.page.redirects_to = "None"
         THEN [b EXCEPT !.pc = "text"]
         ELSE [b EXCEPT !.pc = "text",
                        !.printed = Append(@,
                            <<"error checking redirect status",
                              b.page.redirects_to>>)]

\* add_category_to_page: the redirect check
IsRedirectPage ==
    /\ bot.pc = "is_redirect_page"
    /\ bot' = AfterRedirectsTo([bot EXCEPT !.trace = Append(@, "redirects_to")])
    /\ UNCHANGED <<diffVars, tx>>

\* add_category_to_page from page.text() to the call of confirm_edit
AfterText(b) ==
    IF category_in_text(b.page.text, b.category_name)
    THEN Returned(b, FALSE)
    ELSE [b EXCEPT !.pc = "confirm_edit",
                   !.page_title = b.page.name,
                   !.old_text = b.page.text,
                   !.new_text = NewText(b.page.text, b.category_name)]

\* add_category_to_page: the text read and looked at
ReadPageText ==
    /\ bot.pc = "text"
    /\ bot' = AfterText([bot EXCEPT !.trace = Append(@, "text")])
    /\ UNCHANGED <<diffVars, tx>>

\* add_category_to_page after page.save(new_text, summary=summary) has
\* returned or raised
AfterSave(b, outcome) ==
    IF outcome = "saved"
    THEN Returned([b EXCEPT !.page.text = b.new_text,
                            !.page.saves = Append(@, b.category_name)], TRUE)
    ELSE Returned([b EXCEPT !.printed = Append(@,
                                <<"Error adding category", outcome>>)],
                  FALSE)

\* add_category_to_page: the save
SavePage ==
    /\ bot.pc = "save"
    /\ \E outcome \in SaveOutcomes :
          bot' = AfterSave([bot EXCEPT !.trace = Append(@, "save"),
                                      !.saved = Append(@, bot.new_text)],
                           outcome)
    /\ UNCHANGED <<diffVars, tx>>

NextBot ==
    \/ SetAskMode
    \/ ConfirmEditCall
    \/ ConfirmEditEnter
    \/ ConfirmEditInput
    \/ AddCategoryCall
    \/ IsRedirectPage
    \/ ReadPageText
    \/ SavePage

SpecBot == InitBot /\ [][NextBot]_vars

(***************************************************************************)
(* process_category(ar_site, en_site, category_name), each step ending at  *)
(* a call of one of the sites or of add_category_to_page, whose steps are  *)
(* those above.                                                            *)
(***************************************************************************)
\* process_category at its call of should_skip_ar_category
\*   ar_hidden, en_hidden: "hidden" or "visible" once is_hidden_category
\*       has returned
\*   en_category_title: what get_interwiki_link returned, once it has
\*   members, k: len(en_members), and the place of en_member in it
\*   text, ar_article_title: en_member.text() and the member's link
\*   attempts: the calls of add_category_to_page so far, each with the
\*       place of the member, its text and its link
\*   calls: the calls made so far, in order
Frame(category_name) ==
    [pc |-> "should_skip_ar_category",
     category_name |-> category_name,
     category_name_without_prefix |-> WithoutPrefix(category_name),
     ar_hidden |-> "", en_hidden |-> "",
     en_category_title |-> <<>>,
     members |-> -1, k |-> 0,
     text |-> <<>>, ar_article_title |-> <<>>,
     added_count |-> 0, attempts |-> <<>>, calls |-> <<>>]

InitProcess ==
    /\ pc = "idle"
    /\ text_a = <<>>
    /\ text_b = <<>>
    /\ ctx = 0
    /\ pm = NoPatch
    /\ stdout = <<>>
    /\ ms = NoCall
    /\ tx = NoText
    /\ \E ask \in BOOLEAN, category_name \in ArCategoryNames :
          bot = [Idle(ask, FALSE, NoPage) EXCEPT
                    !.proc = Frame(category_name)]

\* process_category returns
Done(p) == [p EXCEPT !.pc = "done"]

\* is_hidden_category(category_page), outcome being what the query does
is_hidden_category(outcome) == outcome = "True"

\* process_category after should_skip_ar_category
AfterShouldSkipAr(p, hidden) ==
    IF hidden \/ is_ar_stub_or_maintenance_category(p.category_name)
    THEN Done([p EXCEPT !.ar_hidden = IF hidden THEN "hidden" ELSE "visible"])
    ELSE [p EXCEPT !.ar_hidden = "visible", !.pc = "get_interwiki_link"]

\* process_category: should_skip_ar_category(ar_category_page)
ShouldSkipArCategory ==
    /\ bot.pc = "idle"
    /\ bot.proc.pc = "should_skip_ar_category"
    /\ \E outcome \in HiddenOutcomes :
          bot' = [bot EXCEPT !.proc =
                    AfterShouldSkipAr(
                        [bot.proc EXCEPT !.calls = Append(@, "ar_hidden")],
                        is_hidden_category(outcome))]
    /\ UNCHANGED <<diffVars, tx>>

\* process_category after get_interwiki_link(ar_category_page, 'en')
AfterEnLink(p, en_category_title) ==
    IF en_category_title = <<>>
    THEN Done(p)
    ELSE [p EXCEPT !.en_category_title = en_category_title,
                   !.pc = "should_skip_en_category"]

\* process_category: get_interwiki_link(ar_category_page, 'en')
GetEnCategoryTitle ==
    /\ bot.pc = "idle"
    /\ bot.proc.pc = "get_interwiki_link"
    /\ \E title \in InterwikiLinks(EnCategoryTitles) :
          bot' = [bot EXCEPT !.proc =
                    AfterEnLink(
                        [bot.proc EXCEPT !.calls = Append(@, "en_link")],
                        title)]
    /\ UNCHANGED <<diffVars, tx>>

\* a should_skip_en_category that looks at the hidden property only: the
\* variant C26 is checked against
AfterShouldSkipEnHiddenOnly(p, hidden) ==
    IF hidden
    THEN Done([p EXCEPT !.en_hidden = "hidden"])
    ELSE [p EXCEPT !.en_hidden = "visible", !.pc = "get_category_members"]

\* process_category after should_skip_en_category
AfterShouldSkipEn(p, hidden) ==
    IF hidden \/ is_en_stub_or_maintenance_category(p.en_category_title)
    THEN Done([p EXCEPT !.en_hidden = IF hidden THEN "hidden" ELSE "visible"])
    ELSE [p EXCEPT !.en_hidden = "visible", !.pc = "get_category_members"]

\* process_category: should_skip_en_category(en_category_page)
ShouldSkipEnCategory ==
    /\ bot.pc = "idle"
    /\ bot.proc.pc = "should_skip_en_category"
    /\ \E outcome \in HiddenOutcomes :
          bot' = [bot EXCEPT !.proc =
                    AfterShouldSkipEn(
                        [bot.proc EXCEPT !.calls = Append(@, "en_hidden")],
                        is_hidden_category(outcome))]
    /\ UNCHANGED <<diffVars, tx>>

\* process_category after get_category_members, which returns [] when
\* the query raises
AfterMembers(p, members) ==
    IF members = 0
    THEN Done([p EXCEPT !.members = 0])
    ELSE [p EXCEPT !.members = members, !.k = 1, !.pc = "text"]

\* process_category: get_category_members(en_site, en_category_title)
GetCategoryMembers ==
    /\ bot.pc = "idle"
    /\ bot.proc.pc = "get_category_members"
    /\ \E members \in 0..MaxMembers :
          bot' = [bot EXCEPT !.proc =
                    AfterMembers(
                        [bot.proc EXCEPT !.calls = Append(@, "members")],
                        members)]
    /\ UNCHANGED <<diffVars, tx>>

\* the loop of process_category goes on to the next member, or ends
NextMember(p) ==
    IF p.k < p.members
    THEN [p EXCEPT !.k = p.k + 1, !.pc = "text",
                   !.text = <<>>, !.ar_article_title = <<>>]
    ELSE Done([p EXCEPT !.text = <<>>, !.ar_article_title = <<>>])

\* the loop of process_category after en_member.text()
AfterMemberText(p, text) ==
    IF ~en_page_has_category_in_text(text, p.en_category_title)
    THEN NextMember(p)
    ELSE [p EXCEPT !.text = text, !.pc = "ar_link"]

\* the loop of process_category: en_member.text()
MemberText ==
    /\ bot.pc = "idle"
    /\ bot.proc.pc = "text"
    /\ \E text \in MemberTexts :
          bot' = [bot EXCEPT !.proc =
                    AfterMemberText(
                        [bot.proc EXCEPT !.calls = Append(@, "text")], text)]
    /\ UNCHANGED <<diffVars, tx>>

\* the loop of process_category after get_interwiki_link(en_member, 'ar')
AfterArLink(p, ar_article_title) ==
    IF ar_article_title = <<>>
    THEN NextMember(p)
    ELSE [p EXCEPT !.ar_article_title = ar_article_title,
                   !.pc = "add_category_to_page"]

\* the loop of process_category: get_interwiki_link(en_member, 'ar')
MemberArLink ==
    /\ bot.pc = "idle"
    /\ bot.proc.pc = "ar_link"
    /\ \E title \in InterwikiLinks({<<"P">>}) :
          bot' = [bot EXCEPT !.proc =
                    AfterArLink(
                        [bot.proc EXCEPT !.calls = Append(@, "ar_link")],
                        title)]
    /\ UNCHANGED <<diffVars, tx>>

\* the loop of process_category: the call of
\* add_category_to_page(ar_article, category_name_without_prefix, summary)
MemberAddCategory ==
    /\ bot.pc = "idle"
    /\ bot.proc.pc = "add_category_to_page"
    /\ \E ar_article \in ArArticles :
          bot' = [Idle(bot._ask_mode, bot._auto_approve_all, ar_article) EXCEPT
                    !.call = "add_category_to_page",
                    !.pc = "is_redirect_page",
                    !.category_name = bot.proc.category_name_without_prefix,
                    !.proc = [bot.proc EXCEPT
                        !.pc = "added",
                        !.calls = Append(@, "add_category_to_page"),
                        !.attempts = Append(@,
                            [k |-> bot.proc.k, text |-> bot.proc.text,
                             ar_article_title |-> bot.proc.ar_article_title])]]
    /\ UNCHANGED <<diffVars, tx>>

\* the loop of process_category after add_category_to_page has returned
MemberAdded ==
    /\ bot.pc = "idle"
    /\ bot.proc.pc = "added"
    /\ bot.returned
    /\ bot' = [Idle(bot._ask_mode, bot._auto_approve_all, NoPage) EXCEPT
                  !.proc = NextMember(
                      [bot.proc EXCEPT
                          !.calls = @ \o SelectSeq(bot.trace,
                                          LAMBDA c : c = "save"),
                          !.added_count =
                              IF bot.ret THEN @ + 1 ELSE @])]
    /\ UNCHANGED <<diffVars, tx>>

NextProcess ==
    \/ ShouldSkipArCategory
    \/ GetEnCategoryTitle
    \/ ShouldSkipEnCategory
    \/ GetCategoryMembers
    \/ MemberText
    \/ MemberArLink
    \/ MemberAddCategory
    \/ IsRedirectPage
    \/ ReadPageText
    \/ ConfirmEditEnter
    \/ ConfirmEditInput
    \/ SavePage
    \/ MemberAdded

SpecProcess == InitProcess /\ [][NextProcess]_vars


(***************************************************************************)
(* Properties of PatchManager, stated on the states of SpecPatch in which  *)
(* the PatchManager exists.                                                *)
(***************************************************************************)
Built == pc \in {"built", "printed"}

\* the blocks of the PatchManager that stand for hunks
ChangedBlocks == {k \in 1..Len(pm.blocks) : pm.blocks[k][1] # -1}

\* C1: the A-ranges of get_blocks' blocks, in order, are contiguous, do not
\* overlap, start at 0 and end at len(A): together they are exactly
\* [0, len(A)).
BlocksPartitionA ==
    Built =>
        /\ \A k \in 1..Len(pm.blocks) :
              /\ pm.blocks[k][2][1] <= pm.blocks[k][2][2]
              /\ pm.blocks[k][2][1] =
                    (IF k = 1 THEN 0 ELSE pm.blocks[k - 1][2][2])
        /\ Len(pm.a) =
              (IF pm.blocks = <<>> THEN 0 ELSE pm.blocks[Len(pm.blocks)][2][2])

\* C1's case: changed blocks between unchanged ones, the last one unchanged
BlocksPartitionAWitness ==
    /\ Built
    /\ Len(pm.blocks) >= 5
    /\ pm.blocks[1][1] = -1
    /\ pm.blocks[Len(pm.blocks)][1] = -1
    /\ Cardinality(ChangedBlocks) >= 2

RECURSIVE WalkBlocks(_, _, _)
\* the lines got by walking the blocks: A's lines of an unchanged block,
\* B's lines of a changed one
WalkBlocks(a, b, blocks) ==
    IF blocks = <<>>
    THEN <<>>
    ELSE (IF Head(blocks)[1] = -1
          THEN Slice(a, Head(blocks)[2][1], Head(blocks)[2][2])
          ELSE Slice(b, Head(blocks)[3][1], Head(blocks)[3][2]))
         \o WalkBlocks(a, b, Tail(blocks))

\* C2: walking the blocks in order, copying A's lines for an unchanged
\* block and B's lines for a changed one, gives exactly the lines of text_b.
BlocksRebuildB ==
    Built => WalkBlocks(pm.a, pm.b, pm.blocks) = pm.b

\* C2's case: differing texts with lines kept, and a changed block that
\* brings lines of B
BlocksRebuildBWitness ==
    /\ Built
    /\ pm.a # pm.b
    /\ \E k \in ChangedBlocks : pm.blocks[k][3][2] - pm.blocks[k][3][1] >= 2
    /\ \E k \in 1..Len(pm.blocks) : pm.blocks[k][1] = -1
    /\ Cardinality(ChangedBlocks) >= 2

\* hunk k is the first member of a super hunk
StartsSuperHunk(k) ==
    \E s \in 1..Len(pm.super_hunks) : pm.super_hunks[s].hunks[1] = pm.hunks[k]

\* hunk k follows hunk k - 1 inside one super hunk
JoinsSuperHunk(k) ==
    \E s \in 1..Len(pm.super_hunks) :
        \E m \in 2..Len(pm.super_hunks[s].hunks) :
            /\ pm.super_hunks[s].hunks[m] = pm.hunks[k]
            /\ pm.super_hunks[s].hunks[m - 1] = pm.hunks[k - 1]

\* three hunks, each separated from the next by exactly one unchanged line
ThreeHunksOneApart ==
    /\ Len(pm.hunks) = 3
    /\ pm.hunks[2].pre_context = 1
    /\ pm.hunks[3].pre_context = 1

\* C3: with context > 0 a hunk after the first starts a new super hunk
\* exactly when its pre_context is greater than 2 * context and otherwise
\* joins the super hunk of the hunk before it; with context = 0 every hunk
\* is a super hunk of its own.  Three hunks one line apart are one super
\* hunk at context 1 and three at context 0.
SuperHunkGrouping ==
    Built =>
        /\ \A k \in 2..Len(pm.hunks) :
              IF pm.context = 0 \/ pm.hunks[k].pre_context > 2 * pm.context
              THEN StartsSuperHunk(k) /\ ~JoinsSuperHunk(k)
              ELSE JoinsSuperHunk(k) /\ ~StartsSuperHunk(k)
        /\ pm.context = 0 =>
              /\ Len(pm.super_hunks) = Len(pm.hunks)
              /\ \A k \in 1..Len(pm.hunks) :
                    pm.super_hunks[k].hunks = <<pm.hunks[k]>>
        /\ ThreeHunksOneApart =>
              /\ pm.context = 1 => Len(pm.super_hunks) = 1
              /\ pm.context = 0 => Len(pm.super_hunks) = 3

\* C3's case: three hunks one line apart grouped at context 1
SuperHunkGroupingWitness ==
    /\ Built
    /\ ThreeHunksOneApart
    /\ pm.context = 1
    /\ Len(pm.super_hunks) = 1
    /\ Len(pm.super_hunks[1].hunks) = 3

\* the position in pm.hunks of a member hunk
HunkIndex(hunk) == CHOOSE k \in 1..Len(pm.hunks) : pm.hunks[k] = hunk

\* where the hunk before hunk k ends in A, and where the hunk after it starts
PrecedingEnd(k) == IF k = 1 THEN 0 ELSE pm.hunks[k - 1].a_rng[2]

FollowingStart(k) ==
    IF k = Len(pm.hunks) THEN Len(pm.a) ELSE pm.hunks[k + 1].a_rng[1]

\* the A-range of _get_context_range is within ctxt lines of the super hunk,
\* between the hunks around it, and inside [0, len(A)]
ContextRangeBounded(super_hunk, a_range, ctxt) ==
    /\ super_hunk.a_rng[1] - ctxt <= a_range[1]
    /\ a_range[1] <= super_hunk.a_rng[1]
    /\ super_hunk.a_rng[2] <= a_range[2]
    /\ a_range[2] <= super_hunk.a_rng[2] + ctxt
    /\ PrecedingEnd(HunkIndex(super_hunk.hunks[1])) <= a_range[1]
    /\ a_range[2] <=
          FollowingStart(HunkIndex(super_hunk.hunks[Len(super_hunk.hunks)]))
    /\ 0 <= a_range[1]
    /\ a_range[2] <= Len(pm.a)

\* C4: the A-range of _get_context_range extends at most context lines
\* before the first hunk and after the last hunk of the super hunk, never
\* past the end of the preceding hunk or the start of the following hunk,
\* and stays inside [0, len(A)].
ContextRangeWithinNeighbours ==
    Built =>
        \A s \in 1..Len(pm.super_hunks) :
            ContextRangeBounded(pm.super_hunks[s],
                _get_context_range(pm.super_hunks[s], pm.context)[1],
                pm.context)

\* the super hunk of hunk k among super_hunks, and k's place in it
SuperHunkWith(super_hunks, k) ==
    CHOOSE s \in 1..Len(super_hunks) :
        \E m \in 1..Len(super_hunks[s].hunks) :
            super_hunks[s].hunks[m] = pm.hunks[k]

\* the unchanged lines _generate_diff writes just before hunk k of the
\* super hunk sh: the leading context for its first member, the lines
\* since the previous member for the others
LinesBefore(sh, k, ctxt) ==
    IF sh.hunks[1] = pm.hunks[k]
    THEN Len(Slice(pm.a, _get_context_range(sh, ctxt)[1][1],
                   pm.hunks[k].a_rng[1]))
    ELSE Len(Slice(pm.a, pm.hunks[k - 1].a_rng[2], pm.hunks[k].a_rng[1]))

\* the unchanged lines _generate_diff writes just after hunk k
LinesAfter(sh, k, ctxt) ==
    IF sh.hunks[Len(sh.hunks)] = pm.hunks[k]
    THEN Len(Slice(pm.a, pm.hunks[k].a_rng[2],
                   _get_context_range(sh, ctxt)[1][2]))
    ELSE Len(Slice(pm.a, pm.hunks[k].a_rng[2], pm.hunks[k + 1].a_rng[1]))

ShownBefore(k, ctxt) ==
    LinesBefore(_generate_super_hunks(pm.hunks, ctxt)[
                    SuperHunkWith(_generate_super_hunks(pm.hunks, ctxt), k)],
                k, ctxt)

ShownAfter(k, ctxt) ==
    LinesAfter(_generate_super_hunks(pm.hunks, ctxt)[
                   SuperHunkWith(_generate_super_hunks(pm.hunks, ctxt), k)],
               k, ctxt)

\* C5: for one pair of texts and contexts c1 <= c2, the unchanged lines
\* shown before and after every hunk under c1 are at most those shown
\* under c2.
ContextMonotone ==
    Built =>
        \A c1, c2 \in 0..MaxContext :
            c1 <= c2 =>
                \A k \in 1..Len(pm.hunks) :
                    /\ ShownBefore(k, c1) <= ShownBefore(k, c2)
                    /\ ShownAfter(k, c1) <= ShownAfter(k, c2)

\* C6: for identical texts the PatchManager has no hunks and no super
\* hunks, and print_hunks writes nothing.
IdenticalTextsPrintNothing ==
    (Built /\ text_a = text_b) =>
        /\ pm.hunks = <<>>
        /\ pm.super_hunks = <<>>
        /\ pc = "printed" => stdout = <<>>

\* C6's case: print_hunks has run on two equal texts that have lines
IdenticalTextsPrintNothingWitness ==
    /\ pc = "printed"
    /\ text_a = text_b
    /\ Len(text_a) >= 2

\* C7 as the specification states it: for "line1\nline2\nline3\n" against
\* "line1\nlineX\nline3\n" there is exactly one hunk and its header is
\* "@@ -2,1 +2,1 @@".
ReplaceHeaderWithLengths ==
    (Built /\ <<text_a, text_b>> = ReplaceScenario) =>
        /\ Len(pm.hunks) = 1
        /\ pm.hunks[1].header = "@@ -2,1 +2,1 @@\n"

\* C7 as the code has it: for "line1\nline2\nline3\n" against
\* "line1\nlineX\nline3\n" there is exactly one hunk, of the second line
\* of either text, and its header is "@@ -2 +2 @@": a range of one line is
\* written without its length.
ReplaceHeaderOneLine ==
    (Built /\ <<text_a, text_b>> = ReplaceScenario) =>
        /\ Len(pm.hunks) = 1
        /\ pm.hunks[1].a_rng = <<1, 2>>
        /\ pm.hunks[1].b_rng = <<1, 2>>
        /\ pm.hunks[1].header = "@@ -2 +2 @@\n"

\* C7's case: the PatchManager of the two texts exists
ReplaceHeaderWitness ==
    /\ Built
    /\ <<text_a, text_b>> = ReplaceScenario
    /\ pm.hunks # <<>>

\* the body of the hunk that inserts "x"
InsertedLine == <<"+", " ", "x", "\n">>

\* the insertion hunk but for its header: one "+ x" line, wrapped whole in
\* the lightgreen tag, printed green, and no "-" line
InsertBody(hunk) ==
    /\ hunk.diff = <<InsertedLine>>
    /\ hunk.diff_text = <<Tag("lightgreen")>> \o InsertedLine \o <<Tag("default")>>
    /\ make_str(hunk.diff_text) = <<Escape(92)>> \o InsertedLine \o <<Reset>>
    /\ \A k \in 1..Len(hunk.diff) : ~StartsWith(hunk.diff[k], "-")

\* C8 as the specification states it: for "a\nb\n" against "a\nx\nb\n"
\* there is one hunk with header "@@ -2,0 +2,1 @@" whose body is the single
\* line "+ x" wrapped whole in the green tag, with no "-" line.
InsertHeaderWithLengths ==
    (Built /\ <<text_a, text_b>> = InsertScenario) =>
        /\ Len(pm.hunks) = 1
        /\ pm.hunks[1].header = "@@ -2,0 +2,1 @@\n"
        /\ InsertBody(pm.hunks[1])

\* C8 as the code has it: for "a\nb\n" against "a\nx\nb\n" there is one
\* hunk with header "@@ -1,0 +2 @@" (an empty A-range after line 1, the one
\* B-line 2) whose body is the single line "+ x" wrapped whole in the green
\* tag, with no "-" line.
InsertHeaderEmptyRange ==
    (Built /\ <<text_a, text_b>> = InsertScenario) =>
        /\ Len(pm.hunks) = 1
        /\ pm.hunks[1].a_rng = <<1, 1>>
        /\ pm.hunks[1].b_rng = <<1, 2>>
        /\ pm.hunks[1].header = "@@ -1,0 +2 @@\n"
        /\ InsertBody(pm.hunks[1])

\* C8's case: the PatchManager of the two texts exists and has printed
InsertHeaderWitness ==
    /\ pc = "printed"
    /\ <<text_a, text_b>> = InsertScenario
    /\ stdout # <<>>

(***************************************************************************)
(* Properties of make_str, stated on the states of SpecColor.              *)
(***************************************************************************)
\* the loop of make_str is about to read a "previous" tag with only the
\* bottom element on the stack
PreviousAtBottom ==
    /\ ms.pc = "loop"
    /\ MakeStrLooping(ms)
    /\ ms.colors[ms.k] = "previous"
    /\ Len(ms.color_stack) = 1

\* C9: the colour stack of make_str always holds at least one element and
\* its bottom element is "default"; a "previous" tag met while the stack
\* holds one element removes nothing.
ColorStackKeepsDefault ==
    /\ [](ms.pc # "idle" =>
            /\ Len(ms.color_stack) >= 1
            /\ ms.color_stack[1] = "default")
    /\ [][PreviousAtBottom => ms'.color_stack = ms.color_stack]_vars

\* C9's case: two "previous" tags have been read with nothing pushed
\* before them, and the stack is as it was
ColorStackKeepsDefaultWitness ==
    /\ ms.pc = "loop"
    /\ ms.k = 3
    /\ ms.colors[1] = "previous"
    /\ ms.colors[2] = "previous"
    /\ ms.color_stack = <<"default">>

RECURSIVE TagDepth(_, _)
\* the nesting depth after the tags of textm, from depth d; -1 once a
\* "previous" closes nothing
TagDepth(textm, d) ==
    IF textm = <<>> THEN d
    ELSE IF ~IsTag(Head(textm)) THEN TagDepth(Tail(textm), d)
    ELSE IF TagBody(Head(textm)) # "previous" THEN TagDepth(Tail(textm), d + 1)
    ELSE IF d = 0 THEN -1
    ELSE TagDepth(Tail(textm), d - 1)

\* every <<name>> tag of textm is closed by a later <<previous>>, and every
\* <<previous>> closes one
ProperlyNested(textm) == TagDepth(textm, 0) = 0

Escapes == {Escape(color_numbers[c]) : c \in DOMAIN color_numbers}

RECURSIVE EscapesReset(_, _)
\* in the output out, read with an escape open or not: no escape sequence
\* opens while another is open, and none is open at the end
EscapesReset(out, open) ==
    IF out = <<>> THEN ~open
    ELSE IF Head(out) \in Escapes THEN ~open /\ EscapesReset(Tail(out), TRUE)
    ELSE IF Head(out) = Reset THEN EscapesReset(Tail(out), FALSE)
    ELSE EscapesReset(Tail(out), open)

\* C10: for a text whose tags are properly nested pairs, every escape
\* sequence make_str opens is reset before the next one opens and before
\* the output ends.
NestedTagsAreReset ==
    (ms.pc # "idle" /\ ProperlyNested(ms.textm)) =>
        /\ EscapesReset(ms.toprint, FALSE)
        /\ ms.pc = "done" => EscapesReset(ms.ret, FALSE)

\* C10's case: make_str has returned a text with a coloured piece inside a
\* coloured piece
NestedTagsAreResetWitness ==
    /\ ms.pc = "done"
    /\ ms.textm = <<Tag("red"), Tag("lightgreen"), "t", Tag("previous"),
                    Tag("previous")>>
    /\ ms.ret = <<Escape(91), Reset, Escape(92), "t", Reset, Escape(91), Reset>>

\* the loop of make_str is about to add the text that follows a tag
\* <<name>> whose name is not in the colour table
AfterUnknownColor ==
    /\ ms.pc = "loop"
    /\ MakeStrLooping(ms)
    /\ ms.k > 1
    /\ ms.colors[ms.k - 1] # "previous"
    /\ ms.colors[ms.k - 1] \notin DOMAIN get_color_table

\* C11: the text that follows a tag whose colour name is not in the colour
\* table is added to the output of make_str exactly as written, with no
\* escape sequence around it, and the loop goes on without an error.
UnknownColorPassesText ==
    [][AfterUnknownColor =>
          /\ ms'.toprint = ms.toprint \o ms.texts[ms.k]
          /\ ms'.pc = "loop"]_vars

\* C11's case: make_str has returned a text with a piece after <<red>> and a
\* piece after a tag of no known colour
UnknownColorPassesTextWitness ==
    /\ ms.pc = "done"
    /\ ms.textm = <<Tag("red"), "t", Tag("nosuch"), "t">>
    /\ ms.ret = <<Escape(91), "t", Reset, "t">>

\* C12: make_str returns its argument unchanged when the argument is not a
\* str, and when it is a str that holds no markup.
PlainInputReturned ==
    (ms.pc = "done" /\ (~ms.is_str \/ ~HasMarkup(ms.textm))) =>
        ms.ret = ms.textm

\* C12's case: make_str has returned a list that holds a tag
PlainInputReturnedWitness ==
    /\ ms.pc = "done"
    /\ ~ms.is_str
    /\ ms.textm = <<Tag("red"), "t">>

\* C12's other case: make_str has returned a str without markup
PlainStrReturned ==
    /\ ms.pc = "done"
    /\ ms.is_str
    /\ ms.textm = <<"t", "t">>
    /\ ms.ret = <<"t", "t">>

\* C20: every super hunk has the pre_context of its first member and the
\* post_context of its last member, also when it has two or more members.
SuperHunkContextInherited ==
    Built =>
        \A s \in 1..Len(pm.super_hunks) :
            /\ pm.super_hunks[s].pre_context =
                  pm.super_hunks[s].hunks[1].pre_context
            /\ pm.super_hunks[s].post_context =
                  pm.super_hunks[s].hunks[
                      Len(pm.super_hunks[s].hunks)].post_context

\* C21: after PatchManager.__init__ the first hunk's pre_context is its
\* A-range start; every later hunk's pre_context is its A-range start minus
\* the A-range end of the hunk before it, and that hunk's post_context is the
\* same number; the last hunk's post_context is len(A) minus its A-range end.
HunkContextsSet ==
    Built =>
        \A k \in 1..Len(pm.hunks) :
            /\ pm.hunks[k].pre_context = pm.hunks[k].a_rng[1] - PrecedingEnd(k)
            /\ k > 1 =>
                  pm.hunks[k - 1].post_context = pm.hunks[k].pre_context
            /\ k = Len(pm.hunks) =>
                  pm.hunks[k].post_context = Len(pm.a) - pm.hunks[k].a_rng[2]

\* three hunks with unchanged lines before, between and after them
HunkContextsSetWitness ==
    /\ Built
    /\ Len(pm.hunks) = 3
    /\ pm.hunks[1].pre_context = 2
    /\ pm.hunks[1].post_context = 3
    /\ pm.hunks[2].post_context = 1
    /\ pm.hunks[3].post_context = 2

\* the hunks of the super hunks, in order
MemberLists == [s \in 1..Len(pm.super_hunks) |-> pm.super_hunks[s].hunks]

\* C27: every super hunk has a member, and the member lists of the super
\* hunks, one after the other, are the list of hunks: every hunk is in
\* exactly one super hunk and the order of the hunks is kept.
SuperHunksPartitionHunks ==
    Built =>
        /\ \A s \in 1..Len(pm.super_hunks) : pm.super_hunks[s].hunks # <<>>
        /\ Flatten(MemberLists) = pm.hunks

\* a context that joins two of three hunks and leaves the third alone
SuperHunksPartitionHunksWitness ==
    /\ Built
    /\ pm.context > 0
    /\ Len(pm.hunks) = 3
    /\ Len(pm.super_hunks) = 2
    /\ Len(pm.super_hunks[1].hunks) = 1
    /\ Len(pm.super_hunks[2].hunks) = 2

\* C28: the hunks of PatchManager, made with get_grouped_opcodes(0), come
\* in increasing order of A and never touch: each hunk but the first starts
\* after the end of the hunk before it (pre_context >= 1), and no hunk has a
\* negative pre_context or post_context.
HunksApart ==
    Built =>
        \A k \in 1..Len(pm.hunks) :
            /\ pm.hunks[k].pre_context >= 0
            /\ pm.hunks[k].post_context >= 0
            /\ pm.hunks[k].a_rng[1] <= pm.hunks[k].a_rng[2]
            /\ k > 1 =>
                  /\ pm.hunks[k].pre_context >= 1
                  /\ pm.hunks[k].a_rng[1] > pm.hunks[k - 1].a_rng[2]

\* two hunks with one unchanged line between them, the second of them an
\* insertion at the end of the text
HunksApartWitness ==
    /\ Built
    /\ Len(pm.hunks) = 2
    /\ pm.hunks[2].pre_context = 1
    /\ pm.hunks[2].a_rng[1] = pm.hunks[2].a_rng[2]
    /\ pm.hunks[2].post_context = 0
    /\ pm.hunks[1].pre_context = 0

\* the text without its colour tags
Untagged(textm) == SelectSeq(textm, LAMBDA item : ~IsTag(item))

\* the lines _generate_diff writes for the s-th super hunk, tags removed
DiffLines(s) ==
    splitlines(Untagged(_generate_diff(pm.a, pm.super_hunks[s], pm.context)))

\* the lines of ls that start with one of signs, without sign and space
LinesSigned(ls, signs) ==
    LET kept == SelectSeq(ls, LAMBDA l : l[1] \in signs)
    IN  [k \in 1..Len(kept) |-> SubSeq(kept[k], 3, Len(kept[k]))]

\* every line of ls without its trailing whitespace
RStripped(ls) == [k \in 1..Len(ls) |-> RStrip(ls[k])]

\* the A-range the s-th super hunk displays
DisplayedRange(s) == _get_context_range(pm.super_hunks[s], pm.context)[1]

\* the lines of B the members of the s-th super hunk put in
MemberLinesOfB(s) ==
    Flatten([k \in 1..Len(pm.super_hunks[s].hunks) |->
                Slice(pm.b, pm.super_hunks[s].hunks[k].b_rng[1],
                      pm.super_hunks[s].hunks[k].b_rng[2])])

\* the number of lines of A written before the i-th line of ls
LinesOfABefore(ls, i) == Len(LinesSigned(SubSeq(ls, 1, i - 1), {" ", "-"}))

\* C25: what _generate_diff writes for a super hunk starts with the header;
\* after it the unchanged and the removed lines are the lines of A of the
\* displayed range, each once and in the order of A; the added lines are
\* the lines of B of the member hunks, in order; and each added line stands
\* among the lines of a member hunk, after the context before that hunk
\* and before the context after it.
GeneratedDiffInOrder ==
    Built =>
        \A s \in 1..Len(pm.super_hunks) :
            /\ SubSeq(_generate_diff(pm.a, pm.super_hunks[s], pm.context), 1, 4)
                  = <<Tag("aqua"),
                      get_header_text(
                        _get_context_range(pm.super_hunks[s], pm.context)[1],
                        _get_context_range(pm.super_hunks[s], pm.context)[2]),
                      Tag("default"), "\n">>
            /\ RStripped(LinesSigned(Tail(DiffLines(s)), {" ", "-"}))
                  = RStripped(Slice(pm.a, DisplayedRange(s)[1],
                                    DisplayedRange(s)[2]))
            /\ LinesSigned(Tail(DiffLines(s)), {"+"}) = MemberLinesOfB(s)
            /\ \A i \in 1..Len(Tail(DiffLines(s))) :
                  /\ Tail(DiffLines(s))[i][1] \in {" ", "-", "+"}
                  /\ Tail(DiffLines(s))[i][1] = "+" =>
                        \E k \in 1..Len(pm.super_hunks[s].hunks) :
                            /\ pm.super_hunks[s].hunks[k].a_rng[1]
                                  - DisplayedRange(s)[1]
                                  <= LinesOfABefore(Tail(DiffLines(s)), i)
                            /\ LinesOfABefore(Tail(DiffLines(s)), i)
                                  <= pm.super_hunks[s].hunks[k].a_rng[2]
                                       - DisplayedRange(s)[1]

\* a super hunk of two members with a context line before them and an
\* unchanged line between them, the first member an insertion
GeneratedDiffInOrderWitness ==
    /\ Built
    /\ pm.context = 1
    /\ Len(pm.super_hunks) = 1
    /\ Len(pm.super_hunks[1].hunks) = 2
    /\ pm.super_hunks[1].hunks[1].a_rng = <<1, 1>>
    /\ pm.super_hunks[1].hunks[1].b_rng = <<1, 2>>
    /\ pm.super_hunks[1].hunks[2].a_rng = <<2, 3>>
    /\ DisplayedRange(1)[1] = 0
    /\ Len(DiffLines(1)) = 5

\* the lines format_diff yields for the k-th hunk, tags removed
FormattedLines(k) ==
    [i \in 1..Len(format_diff(pm.hunks[k].diff)) |->
        Untagged(format_diff(pm.hunks[k].diff)[i])]

\* the places of the "?" lines in the plain diff of the k-th hunk
MarkerLines(k) ==
    {i \in 1..Len(pm.hunks[k].diff) : StartsWith(pm.hunks[k].diff[i], "?")}

\* C24: no line that format_diff yields is a "?" line of the plain diff:
\* each starts with "-" or "+", and so does each line of the diff text of
\* the hunk, wherever the "?" lines stand in the plain diff.
MarkerLinesNotShown ==
    Built =>
        \A k \in 1..Len(pm.hunks) :
            /\ \A i \in 1..Len(FormattedLines(k)) :
                  FormattedLines(k)[i][1] \in {"-", "+"}
            /\ \A l \in 1..Len(splitlines(Untagged(pm.hunks[k].diff_text))) :
                  splitlines(Untagged(pm.hunks[k].diff_text))[l][1]
                      \in {"-", "+"}

\* a hunk of two removed and two added lines with a "?" line in the middle
\* of its plain diff and one at its end
MarkerLinesNotShownWitness ==
    /\ Built
    /\ Len(pm.hunks) = 1
    /\ Len(pm.hunks[1].diff) >= 6
    /\ Len(pm.hunks[1].diff) \in MarkerLines(1)
    /\ \E i \in MarkerLines(1) : 1 < i /\ i < Len(pm.hunks[1].diff) - 1

\* the removed and the added lines of the plain diff of the k-th hunk
ChangedLines(k) ==
    SelectSeq(pm.hunks[k].diff, LAMBDA l : l[1] \in {"-", "+"})

\* C29: format_diff yields one line for each "-" or "+" line of the plain
\* diff, in the same order and with the same characters, and nothing for
\* the other lines: no "-" or "+" line is left out or yielded twice.
FormatDiffKeepsChangedLines ==
    Built =>
        \A k \in 1..Len(pm.hunks) : FormattedLines(k) = ChangedLines(k)

\* a plain diff that ends with a "+" line right after a "?" line, and one
\* with a "+" line right after a "?" line in its middle
FormatDiffKeepsChangedLinesWitness ==
    /\ Built
    /\ Len(pm.hunks) = 1
    /\ \E i \in MarkerLines(1) :
          /\ i + 1 = Len(pm.hunks[1].diff)
          /\ StartsWith(pm.hunks[1].diff[i + 1], "+")
    /\ \E i \in MarkerLines(1) :
          /\ i + 1 < Len(pm.hunks[1].diff)
          /\ StartsWith(pm.hunks[1].diff[i + 1], "+")

RECURSIVE SpanFlags(_, _)
\* for each character of the marked-up line, whether it lies in a colour
\* span: a <<default>> tag closes the span, every other tag opens one
SpanFlags(colored_line, open) ==
    IF colored_line = <<>> THEN <<>>
    ELSE IF IsTag(Head(colored_line))
    THEN SpanFlags(Tail(colored_line), Head(colored_line) # Tag("default"))
    ELSE <<open>> \o SpanFlags(Tail(colored_line), open)

RECURSIVE TagsAlternate(_, _)
\* opening and closing tags take turns, and no span is open at the end
TagsAlternate(colored_line, open) ==
    IF colored_line = <<>> THEN ~open
    ELSE IF ~IsTag(Head(colored_line))
    THEN TagsAlternate(Tail(colored_line), open)
    ELSE IF Head(colored_line) = Tag("default")
    THEN open /\ TagsAlternate(Tail(colored_line), FALSE)
    ELSE ~open /\ TagsAlternate(Tail(colored_line), TRUE)

\* for each position of line, and of line_ref.strip() where that is longer,
\* whether the stripped line_ref has a non-blank character there
RefFlags(line, line_ref) ==
    [p \in 1..Max(Len(line), Len(Strip(line_ref))) |->
        p <= Len(Strip(line_ref)) /\ Strip(line_ref)[p] # " "]

\* the "-" and "+" lines of the plain diff of the k-th hunk, by place
SignedPlaces(k) ==
    {i \in 1..Len(pm.hunks[k].diff) : pm.hunks[k].diff[i][1] \in {"-", "+"}}

\* C23: for every "-" or "+" line and every "?" line of a hunk,
\* color_line(line, line_ref) puts a character in a colour span exactly
\* when the stripped line_ref, padded with spaces, has a non-blank
\* character at the same position; opening tags and <<default>> take
\* turns and no span is open at the end; and the characters are those of
\* the line.
SpansFollowLineRef ==
    Built =>
        \A k \in 1..Len(pm.hunks) :
            \A i \in SignedPlaces(k), j \in MarkerLines(k) :
                /\ SpanFlags(color_line(pm.hunks[k].diff[i],
                                        pm.hunks[k].diff[j]), FALSE)
                      = RefFlags(pm.hunks[k].diff[i], pm.hunks[k].diff[j])
                /\ TagsAlternate(color_line(pm.hunks[k].diff[i],
                                            pm.hunks[k].diff[j]), FALSE)
                /\ SubSeq(Untagged(color_line(pm.hunks[k].diff[i],
                                              pm.hunks[k].diff[j])),
                          1, Len(pm.hunks[k].diff[i]))
                      = pm.hunks[k].diff[i]

\* "+ abcx\n" with the line_ref "?     ^\n": a span closed where the
\* line_ref is blank again, and one opened after that
SpansFollowLineRefWitness ==
    /\ Built
    /\ Len(pm.hunks) = 1
    /\ \E i \in SignedPlaces(1), j \in MarkerLines(1) :
          color_line(pm.hunks[1].diff[i], pm.hunks[1].diff[j])
              = <<Tag("lightgreen"), "+", Tag("default"), " ", "a", "b", "c",
                  Tag("lightgreen"), "x", Tag("default"), "\n">>

RECURSIVE WithoutSpaceSpans(_, _)
\* the marked-up line without the spans opened on a space: without their
\* opening tags and the <<default>> that closes each
WithoutSpaceSpans(colored_line, dropping) ==
    IF colored_line = <<>> THEN <<>>
    ELSE IF Head(colored_line)
              \in {Tag("default;lightred"), Tag("default;lightgreen")}
    THEN WithoutSpaceSpans(Tail(colored_line), TRUE)
    ELSE IF dropping /\ Head(colored_line) = Tag("default")
    THEN WithoutSpaceSpans(Tail(colored_line), FALSE)
    ELSE <<Head(colored_line)>> \o WithoutSpaceSpans(Tail(colored_line), dropping)

\* the lines format_diff yields for the k-th hunk that hold a span opened
\* on a space
SpaceSpanLines(k) ==
    {i \in 1..Len(format_diff(pm.hunks[k].diff)) :
        WithoutSpaceSpans(format_diff(pm.hunks[k].diff)[i], FALSE)
            # format_diff(pm.hunks[k].diff)[i]}

\* C22: a span that color_line opens on a space is printed by make_str
\* with a style: the colour of its tag has an escape code, and the line is
\* printed otherwise than the same line without the span.
SpaceSpansVisible ==
    Built =>
        \A k \in 1..Len(pm.hunks) :
            \A i \in SpaceSpanLines(k) :
                /\ \A p \in 1..Len(format_diff(pm.hunks[k].diff)[i]) :
                      format_diff(pm.hunks[k].diff)[i][p]
                          \in {Tag("default;lightred"),
                               Tag("default;lightgreen")}
                      => ColorCode(TagBody(format_diff(pm.hunks[k].diff)[i][p]))
                            # 0
                /\ make_str(format_diff(pm.hunks[k].diff)[i])
                      # make_str(WithoutSpaceSpans(
                                    format_diff(pm.hunks[k].diff)[i], FALSE))

(***************************************************************************)
(* Properties of utils/text_utils.py, stated on the states of SpecText.    *)
(***************************************************************************)
\* C19: for every text and every category name n,
\* en_page_has_category_in_text(text, n) and
\* en_page_has_category_in_text(text, "Category:" + n) return the same.
PrefixMakesNoDifference ==
    {"plain", "prefixed"} \subseteq tx.returned => tx.plain = tx.prefixed

(***************************************************************************)
(* Properties of the bot, stated on the states of SpecBot.                 *)
(***************************************************************************)
\* the bot is at the prompt of confirm_edit, before input() is called
AtPrompt == bot.pc = "input"

\* the positions of the trace at which f was called
CallsOf(f) == {k \in 1..Len(bot.trace) : bot.trace[k] = f}

\* C13 as the specification states it: whenever confirm_edit shows its
\* prompt, showDiff has been run once on the old and the new text with
\* context 0 (a PatchManager of the two texts has printed its hunks).
PromptAfterShowDiff ==
    AtPrompt =>
        /\ pc = "printed"
        /\ pm.a = splitlines(bot.old_text)
        /\ pm.b = splitlines(bot.new_text)
        /\ pm.context = 0

\* the diff confirm_edit has to show for the texts of the running call
PromptDiffText ==
    Flatten(unified_diff(splitlines(bot.old_text), splitlines(bot.new_text)))

\* the prints of confirm_edit show the diff d, or that there is none
DiffPrinted(d) ==
    IF d = <<>>
    THEN \E k \in 1..Len(bot.printed) : bot.printed[k] = <<"No changes detected.">>
    ELSE \E k \in 1..(Len(bot.printed) - 1) :
            /\ bot.printed[k] = <<"Diff:">>
            /\ bot.printed[k + 1] = d

\* C13 as the code has it: whenever confirm_edit shows its prompt it has
\* made the diff of the old and the new text exactly once, with
\* difflib.unified_diff and its default of 3 context lines, and has printed
\* it before input() is called; showDiff and PatchManager are never run.
PromptAfterUnifiedDiff ==
    bot.pc # "off" =>
        /\ pc = "idle" /\ pm = NoPatch
        /\ \A k \in CallsOf("input") : k > 1 /\ bot.trace[k - 1] = "unified_diff"
        /\ AtPrompt =>
              /\ Cardinality(CallsOf("unified_diff")) = 1
              /\ bot.trace[Len(bot.trace)] = "unified_diff"
              /\ DiffPrinted(PromptDiffText)

\* C13's case: the prompt of a confirm_edit called by add_category_to_page,
\* with a diff to show
PromptAfterUnifiedDiffWitness ==
    /\ AtPrompt
    /\ bot.call = "add_category_to_page"
    /\ bot.trace = <<"redirects_to", "text", "unified_diff">>
    /\ PromptDiffText # <<>>

\* C14: once confirm_edit has read the response 'a' the auto-approve flag
\* is set, and from then on it stays set, input() is not called and no
\* confirm_edit returns False, whatever calls follow.
AutoApproveStays ==
    /\ [][(AtPrompt /\ bot'.response = <<"a">>) => bot'._auto_approve_all]_vars
    /\ [][(bot.pc # "off" /\ bot._auto_approve_all) =>
             /\ bot'._auto_approve_all
             /\ bot'.trace # Append(bot.trace, "input")
             /\ (bot'.confirmed /\ ~bot.confirmed) => bot'.confirm_ret]_vars

\* C14's case: with auto-approve set and ask mode on, a confirm_edit called
\* by add_category_to_page has returned True unasked and the page is saved
AutoApproveStaysWitness ==
    /\ bot.pc = "idle"
    /\ bot._auto_approve_all
    /\ bot._ask_mode
    /\ bot.call = "add_category_to_page"
    /\ bot.trace = <<"redirects_to", "text", "save">>
    /\ bot.confirmed /\ bot.confirm_ret

\* C15: at its prompt (ask mode on, auto-approve unset) confirm_edit returns
\* True when the stripped, lower-cased response is '', 'y' or 'yes', True
\* for 'a' and False for every other response; every response but 'a'
\* leaves the auto-approve flag and the ask-mode flag as they are.
ResponseDecides ==
    [][AtPrompt =>
          /\ bot'.trace = Append(bot.trace, "input")
          /\ bot'.confirmed
          /\ bot'.confirm_ret =
                (bot'.response \in {<<>>, <<"y">>, <<"y", "e", "s">>, <<"a">>})
          /\ bot'._ask_mode = bot._ask_mode
          /\ bot'.response # <<"a">> =>
                bot'._auto_approve_all = bot._auto_approve_all]_vars

\* C15's case: " YES " was typed and confirm_edit returned True, the flags
\* being as they were
ResponseDecidesWitness ==
    /\ bot.call = "confirm_edit"
    /\ bot.returned /\ bot.ret
    /\ bot.raw = <<" ", "Y", "E", "S", " ">>
    /\ bot.response = <<"y", "e", "s">>
    /\ bot._ask_mode /\ ~bot._auto_approve_all

\* C15's other case: "aa" was typed and confirm_edit returned False
ResponseRefused ==
    /\ bot.call = "confirm_edit"
    /\ bot.returned /\ ~bot.ret
    /\ bot.raw = <<"a", "a">>

\* C16: confirm_edit returns True without calling input() (and without
\* printing) whenever ask mode is off or auto-approve is set, whatever the
\* title and the texts; it prompts only when ask mode is on and
\* auto-approve is unset.
PromptOnlyWhenAsked ==
    /\ [](AtPrompt => bot._ask_mode /\ ~bot._auto_approve_all)
    /\ [][bot.pc = "confirm_edit" =>
             IF ~bot._ask_mode \/ bot._auto_approve_all
             THEN /\ bot'.confirmed /\ bot'.confirm_ret
                  /\ bot'.trace = bot.trace
                  /\ bot'.printed = bot.printed
             ELSE bot'.pc = "input"]_vars

\* C16's case: with ask mode off, a confirm_edit of two differing texts has
\* returned True with nothing read and nothing printed
PromptOnlyWhenAskedWitness ==
    /\ bot.call = "confirm_edit"
    /\ bot.returned /\ bot.ret
    /\ ~bot._ask_mode /\ ~bot._auto_approve_all
    /\ bot.old_text # bot.new_text
    /\ bot.trace = <<>>
    /\ bot.printed = <<>>

\* page.save raised an error that add_category_to_page caught
SaveRaised ==
    \E k \in 1..Len(bot.printed) : bot.printed[k][1] = "Error adding category"

\* C17: add_category_to_page calls page.save at most once, and only when
\* the page is no redirect, the category is not in the page text and
\* confirm_edit returned True; it returns True exactly when save was called
\* and raised no error; the saved text is the old text without its
\* trailing whitespace, a newline and the Arabic link of the category.
SaveOnceWhenConfirmed ==
    bot.pc # "off" /\ bot.call = "add_category_to_page" =>
        /\ Len(bot.saved) <= 1
        /\ Cardinality(CallsOf("save")) = Len(bot.saved)
        /\ bot.saved # <<>> =>
              /\ bot.page.redirects_to # "target"
              /\ ~category_in_text(bot.old_text, bot.category_name)
              /\ bot.confirmed /\ bot.confirm_ret
              /\ bot.saved[1] =
                    RStrip(bot.old_text) \o <<"\n">>
                    \o Link(Chars("tasnif"), bot.category_name)
        /\ bot.returned => (bot.ret <=> (bot.saved # <<>> /\ ~SaveRaised))

\* C17's case: a page whose text ends in a newline, saved after the answer
\* "y"
SaveOnceWhenConfirmedWitness ==
    /\ bot.call = "add_category_to_page"
    /\ bot.returned /\ bot.ret
    /\ bot.response = <<"y">>
    /\ bot.old_text = <<"x", "\n">>
    /\ bot.category_name = <<"A", ":", "B">>
    /\ bot.page.text = bot.saved[1]

\* C18: add_category_to_page on a redirect returns False without reading
\* the page text, without prompting and without saving; the redirect check
\* is the first access to the page.
RedirectSkipped ==
    bot.pc # "off" /\ bot.call = "add_category_to_page" =>
        /\ bot.trace # <<>> =>
              bot.trace[1] = "redirects_to" /\ CallsOf("redirects_to") = {1}
        /\ (bot.page.redirects_to = "target" /\ bot.trace # <<>>) =>
              /\ bot.trace = <<"redirects_to">>
              /\ bot.returned /\ ~bot.ret
              /\ bot.printed = <<>>
              /\ bot.saved = <<>>

\* C18's case: in ask mode, a redirect without the category was given and
\* add_category_to_page has returned
RedirectSkippedWitness ==
    /\ bot.call = "add_category_to_page"
    /\ bot.page.redirects_to = "target"
    /\ bot.returned
    /\ bot._ask_mode /\ ~bot._auto_approve_all
    /\ ~category_in_text(bot.page.text, bot.category_name)

\* no category name stands twice in the saves of the page
SavedOncePerCategory ==
    \A i, j \in 1..Len(bot.page.saves) :
        bot.page.saves[i] = bot.page.saves[j] => i = j

\* C30: once add_category_to_page has saved the page for a category, every
\* later call for the same page and category, the page text being the
\* saved text, saves nothing and does not return True; when it reads the
\* text it finds the category and returns False at once; so the page is
\* saved at most once for a category.
AddCategoryIdempotent ==
    /\ [](bot.pc # "off" => SavedOncePerCategory)
    /\ [][(/\ bot'.call = "add_category_to_page"
           /\ \E i \in 1..Len(bot.page.saves) :
                 bot.page.saves[i] = bot'.category_name)
          => /\ bot'.saved = <<>>
             /\ bot'.page = bot.page
             /\ category_in_text(bot'.page.text, bot'.category_name)
             /\ bot'.returned => ~bot'.ret
             /\ "text" \in {bot'.trace[k] : k \in 1..Len(bot'.trace)} =>
                   /\ bot'.returned
                   /\ bot'.trace[Len(bot'.trace)] = "text"]_vars

\* the page was saved for A:B and then for A, and a later call for A:B has
\* read the text and returned False
AddCategoryIdempotentWitness ==
    /\ bot.pc = "idle"
    /\ bot.call = "add_category_to_page"
    /\ bot.page.saves = <<<<"A", ":", "B">>, <<"A">>>>
    /\ bot.category_name = <<"A", ":", "B">>
    /\ bot.trace = <<"redirects_to", "text">>
    /\ bot.returned /\ ~bot.ret

(***************************************************************************)
(* Properties of process_category, stated on the states of SpecProcess.    *)
(***************************************************************************)
\* an edit was attempted: add_category_to_page was called, or a page saved
EditAttempted ==
    \/ bot.proc.attempts # <<>>
    \/ bot.call = "add_category_to_page"
    \/ bot.saved # <<>>
    \/ "save" \in {bot.proc.calls[c] : c \in 1..Len(bot.proc.calls)}

\* the title without its first nine characters, "Category:"
AfterCategoryPrefix(title) == SubSeq(title, 10, Len(title))

\* C26: process_category calls add_category_to_page, and a page is saved,
\* only when the Arabic category was found not hidden and is no stub or
\* maintenance category, an English link was found, the English category
\* was found not hidden and is no stub or maintenance category, and it has a
\* member; and for a member only, and once only, after its text was found
\* to hold the English category and its Arabic link was found.
EditsOnlyAfterChecks ==
    (bot.pc # "off" /\ bot.proc.pc # "none") =>
        /\ EditAttempted =>
              /\ bot.proc.ar_hidden = "visible"
              /\ ~is_ar_stub_or_maintenance_category(bot.proc.category_name)
              /\ bot.proc.en_category_title # <<>>
              /\ bot.proc.en_hidden = "visible"
              /\ ~is_en_stub_or_maintenance_category(
                     bot.proc.en_category_title)
              /\ bot.proc.members >= 1
        /\ \A i \in 1..Len(bot.proc.attempts) :
              /\ CategoryPatternFound(bot.proc.attempts[i].text,
                     {Chars("Category")},
                     AfterCategoryPrefix(bot.proc.en_category_title))
              /\ bot.proc.attempts[i].ar_article_title # <<>>
              /\ bot.proc.attempts[i].k \in 1..bot.proc.members
              /\ i > 1 => bot.proc.attempts[i - 1].k < bot.proc.attempts[i].k
        /\ bot.saved # <<>> => bot.proc.pc = "added"
        /\ Len(SelectSeq(bot.proc.calls, LAMBDA c : c = "save"))
              + Len(bot.saved) <= Len(bot.proc.attempts)
        /\ bot.proc.added_count <= Len(bot.proc.attempts)

\* of two members the first was passed over, its text not holding the
\* category, and the second's Arabic article was saved with the category
EditsOnlyAfterChecksWitness ==
    /\ bot.pc = "idle"
    /\ bot.proc.pc = "done"
    /\ bot.proc.members = 2
    /\ Len(bot.proc.attempts) = 1
    /\ bot.proc.attempts[1].k = 2
    /\ bot.proc.added_count = 1
    /\ bot.proc.calls =
          <<"ar_hidden", "en_link", "en_hidden", "members", "text", "text",
            "ar_link", "add_category_to_page", "save">>
=============================================================================
